---- MODULE Spec2Model ----
(***************************************************************************)
(* Campaign orchestrator backend: the file-locked session store            *)
(* (utils/file_lock.py, utils/session_storage.py, main.py) and the         *)
(* orchestration pipeline (orchestration/orchestrator.py,                  *)
(* orchestration/plan_executor.py).                                        *)
(***************************************************************************)
EXTENDS Integers, Sequences, FiniteSets, TLC

(***************************************************************************)
(* Bounds of the model                                                     *)
(***************************************************************************)
\* number of store operations all callers may start in one behaviour
MaxOps == 3

\* number of endpoint requests started in one behaviour
MaxRequests == 2

\* number of tool-call requests one gateway response carries
MaxToolCalls == 2
\* elapsed time is tracked up to this many ticks past the lock timeout
ElapsedSlack == 1

(***************************************************************************)
(* Program constants of FileLock, in milliseconds.  Model time advances in *)
(* ticks of TickMs; a duration of d ms lasts at least d \div TickMs ticks. *)
(***************************************************************************)
\* length of one tick of model time
TickMs == 1000
\* FileLock(timeout=5.0)
TimeoutMs == 5000
\* FileLock(max_retries=3)
MaxRetries == 3
\* wait_time = min(0.1 * (2 ** retry_count), 0.5)
BackoffBaseMs == 100
BackoffCapMs == 500

Procs == {1, 2}

Min(a, b) == IF a < b THEN a ELSE b

RECURSIVE Pow2(_)
Pow2(n) == IF n = 0 THEN 1 ELSE 2 * Pow2(n - 1)

\* wait_time of file_lock.py line 72, in milliseconds
WaitTime(retry) == Min(BackoffBaseMs * Pow2(retry), BackoffCapMs)

\* the timeout, and the least duration of a sleep, in ticks
Timeout == TimeoutMs \div TickMs
SleepTicks(retry) == WaitTime(retry) \div TickMs

MaxElapsed == Timeout + ElapsedSlack

VARIABLES
    file,          \* content of dialog_sessions.json
    lock,          \* flock state: per caller "none", "sh" or "ex"
    pc,            \* per caller: position inside the operation
    op,            \* per caller: the operation it runs
    file_handle,   \* per caller: TRUE while its file handle is open
    retry_count,   \* per caller: FileLock retry_count
    elapsed,       \* per caller: ticks since start_time
    failElapsed,   \* per caller: `elapsed` computed at the last failed attempt
    sessions,      \* per caller: the in-memory session list
    raised,        \* per caller: exception travelling out of the with body
    outcome,       \* per caller: what the caller of the operation observes
    fileBefore,    \* per caller: file content read under the lock (history)
    newId,         \* per caller: id given to the session it appends
    nextId,        \* uuid4 source: next unused id
    opsStarted,    \* number of operations started so far
    touchedBy,     \* the caller whose running operation created the file by
                   \* its touch and has not written it yet, 0 when there is
                   \* none (history)
    req            \* per caller: the request its endpoint handles (the
                   \* session id, the prompt or the message of the request)

storeVars == <<file, lock, pc, op, file_handle, retry_count, elapsed,
               failElapsed, sessions, raised, outcome,
               fileBefore, newId, nextId, opsStarted,
               touchedBy, req>>

VARIABLES
    opc,     \* orchestrate / PlanExecutor.execute: the stage the call is at
    orch,    \* their data: callerContext (the context argument, history),
             \* context, declared (the classification agent's result,
             \* history), classification, planned (the planning agent's
             \* result, history), plan, stepNo (plan steps done or skipped),
             \* direct (execute called on its own), raised (message of the
             \* exception leaving execute), envelope (what orchestrate
             \* returns), execution (what execute returns), log (history:
             \* per executed step its agent, what _execute_step did and
             \* the research input the agent was handed)
    fpc,     \* _format_response: "idle", "call", "returned" or "raised"
    fcall,   \* its arguments: intent, classification, final_result,
             \* execution_result, and aliased (final_result is the object
             \* held by the last record of step_results)
    fout     \* its outcome: raises, ui_components and primary_component
             \* as they are at line 835, response

pipeVars == <<opc, orch, fpc, fcall, fout>>

VARIABLES
    apc,     \* BaseAgent.process: "idle", "call", "tools", "parse" or "returned"
    acall,   \* the call: agent_name and use_tools of the agent, the
             \* knowledge_articles of the context, and turns, what the
             \* completion gateway does at its first, second, ... call
    aout     \* calls (gateway calls made), response (the last response),
             \* gatewayRaised (history), result (what process returns)

agentVars == <<apc, acall, aout>>

vars == <<storeVars, pipeVars, agentVars>>

(***************************************************************************)
(* File content.  kind: "missing" (no file), "empty" (zero bytes or        *)
(* blanks), "garbage" (not JSON), "nonlist" (JSON, not a list),            *)
(* "list" (a JSON list, held in items).                                    *)
(***************************************************************************)
FileOf(kind, items) == [kind |-> kind, items |-> items]

Session(id) == [id |-> id, messages |-> <<>>]

\* ids of the sessions of a list
IdsOf(list) == {list[i].id : i \in 1..Len(list)}

UniqueIds(list) == \A i, j \in 1..Len(list) : list[i].id = list[j].id => i = j

(***************************************************************************)
(* fcntl.flock: an exclusive lock excludes every other holder, a shared    *)
(* lock excludes exclusive holders.                                        *)
(***************************************************************************)
CompatibleNoExclusion(p, type) == TRUE

Compatible(p, type) ==
    IF type = "ex"
    THEN \A q \in Procs \ {p} : lock[q] = "none"
    ELSE \A q \in Procs \ {p} : lock[q] # "ex"

\* lock_type of FileLock: load_sessions passes exclusive=False
LockType(o) == IF o = "load_sessions" THEN "sh" ELSE "ex"

\* the except clauses of FileLock: FileLockError passes, anything else
\* raised while the handle is yielded is re-raised as FileLockError
FileLockExcept(exc) == IF exc = "FileLockError" THEN exc ELSE "FileLockError"

\* a request to an endpoint that uses the store: the session id of the
\* request, the role and the content of its message (for orchestrate_agent
\* the prompt), and whether building the assistant message raises
Request(o, session_id, role, content, raises) ==
    [op |-> o, session_id |-> session_id, role |-> role, content |-> content,
     raises |-> raises]

NoRequest == Request("none", 0, "", "", FALSE)

Message(id, role, content) == [id |-> id, role |-> role, content |-> content]

NoOutcome == [status |-> "none", exc |-> "none", value |-> <<>>]
Returned(v) == [status |-> "returned", exc |-> "none", value |-> v]
Raised(e) == [status |-> "raised", exc |-> e, value |-> <<>>]

StoreOps == {"create_session", "mutate_raise", "load_sessions"}

InitialFiles ==
    { FileOf("missing", <<>>), FileOf("empty", <<>>), FileOf("garbage", <<>>),
      FileOf("nonlist", <<>>), FileOf("list", <<>>),
      FileOf("list", <<Session(0)>>) }

\* no caller has entered the store
CallersIdle ==
    /\ lock = [p \in Procs |-> "none"]
    /\ pc = [p \in Procs |-> "idle"]
    /\ op = [p \in Procs |-> "none"]
    /\ file_handle = [p \in Procs |-> FALSE]
    /\ retry_count = [p \in Procs |-> 0]
    /\ elapsed = [p \in Procs |-> 0]
    /\ failElapsed = [p \in Procs |-> 0]
    /\ sessions = [p \in Procs |-> <<>>]
    /\ raised = [p \in Procs |-> "none"]
    /\ outcome = [p \in Procs |-> NoOutcome]
    /\ fileBefore = [p \in Procs |-> FileOf("missing", <<>>)]
    /\ newId = [p \in Procs |-> 0]
    /\ nextId = 1
    /\ opsStarted = 0
    /\ touchedBy = 0
    /\ req = [p \in Procs |-> NoRequest]

InitStore == file \in InitialFiles /\ CallersIdle

\* A caller enters load_sessions or atomic_session_operation.
\* load_sessions returns [] when the file does not exist;
\* atomic_session_operation touches a missing file.
Enter(p, o, r, limit) ==
    /\ pc[p] \in {"idle", "done"}
    /\ opsStarted < limit
    /\ req' = [req EXCEPT ![p] = r]
    /\ opsStarted' = opsStarted + 1
    /\ touchedBy' = IF o # "load_sessions" /\ file.kind = "missing" THEN p ELSE touchedBy
    /\ op' = [op EXCEPT ![p] = o]
    /\ sessions' = [sessions EXCEPT ![p] = <<>>]
    /\ raised' = [raised EXCEPT ![p] = "none"]
    /\ newId' = [newId EXCEPT ![p] = 0]
    /\ fileBefore' = [fileBefore EXCEPT ![p] = FileOf("missing", <<>>)]
    /\ retry_count' = [retry_count EXCEPT ![p] = 0]
    /\ elapsed' = [elapsed EXCEPT ![p] = 0]
    /\ failElapsed' = [failElapsed EXCEPT ![p] = 0]
    /\ IF o = "load_sessions"
       THEN /\ file' = file
            /\ IF file.kind = "missing"
               THEN /\ pc' = [pc EXCEPT ![p] = "done"]
                    /\ outcome' = [outcome EXCEPT ![p] = Returned(<<>>)]
               ELSE /\ pc' = [pc EXCEPT ![p] = "open"]
                    /\ outcome' = [outcome EXCEPT ![p] = NoOutcome]
       ELSE /\ file' = IF file.kind = "missing" THEN FileOf("empty", <<>>) ELSE file
            /\ pc' = [pc EXCEPT ![p] = "open"]
            /\ outcome' = [outcome EXCEPT ![p] = NoOutcome]
    /\ UNCHANGED <<lock, file_handle, nextId>>
    /\ UNCHANGED pipeVars
    /\ UNCHANGED agentVars

\* a caller of the store on its own
Begin(p, o) == Enter(p, o, NoRequest, MaxOps)

\* an endpoint of main.py enters the store for its request
BeginRequest(p, r) == Enter(p, r.op, r, MaxRequests)

\* FileLock lines 48-55: open the file, start the clock
Open(p) ==
    /\ pc[p] = "open"
    /\ file_handle' = [file_handle EXCEPT ![p] = TRUE]
    /\ pc' = [pc EXCEPT ![p] = "try"]
    /\ UNCHANGED <<file, lock, op, retry_count, elapsed, failElapsed,
                   sessions, raised, outcome, fileBefore, newId, nextId, opsStarted, touchedBy, req>>
    /\ UNCHANGED pipeVars
    /\ UNCHANGED agentVars

\* FileLock lines 57-73: one non-blocking flock attempt.  On contention
\* elapsed is measured; at or past the timeout FileLockError is raised,
\* otherwise the caller sleeps wait_time.
TryLock(p) ==
    /\ pc[p] = "try"
    /\ IF Compatible(p, LockType(op[p]))
       THEN /\ lock' = [lock EXCEPT ![p] = LockType(op[p])]
            /\ pc' = [pc EXCEPT ![p] = "yield"]
            /\ elapsed' = [elapsed EXCEPT ![p] = 0]
            /\ UNCHANGED <<failElapsed, raised, retry_count>>
       ELSE /\ lock' = lock
            /\ IF elapsed[p] >= Timeout
               THEN /\ raised' = [raised EXCEPT ![p] = "FileLockError"]
                    /\ pc' = [pc EXCEPT ![p] = "unlock"]
                    /\ elapsed' = [elapsed EXCEPT ![p] = 0]
                    /\ UNCHANGED <<failElapsed, retry_count>>
               ELSE /\ failElapsed' = [failElapsed EXCEPT ![p] = elapsed[p]]
                    /\ pc' = [pc EXCEPT ![p] = "sleep"]
                    /\ UNCHANGED <<raised, elapsed, retry_count>>
    /\ UNCHANGED <<file, op, file_handle, sessions,
                   outcome, fileBefore, newId, nextId, opsStarted, touchedBy, req>>
    /\ UNCHANGED pipeVars
    /\ UNCHANGED agentVars

\* FileLock lines 73-92: time.sleep returns, retry_count += 1; when the
\* retries are used up, remaining_time is computed from the elapsed time
\* measured before the sleep and, if positive, the blocking flock is entered
Wake(p) ==
    /\ pc[p] = "sleep"
    /\ elapsed[p] >= failElapsed[p] + SleepTicks(retry_count[p])
    /\ failElapsed' = [failElapsed EXCEPT ![p] = 0]
    /\ retry_count' = [retry_count EXCEPT ![p] = retry_count[p] + 1]
    /\ IF retry_count[p] + 1 >= MaxRetries
       THEN IF Timeout - failElapsed[p] > 0
            THEN /\ pc' = [pc EXCEPT ![p] = "blocked"]
                 /\ UNCHANGED <<raised, elapsed>>
            ELSE /\ raised' = [raised EXCEPT ![p] = "FileLockError"]
                 /\ pc' = [pc EXCEPT ![p] = "unlock"]
                 /\ elapsed' = [elapsed EXCEPT ![p] = 0]
       ELSE /\ pc' = [pc EXCEPT ![p] = "try"]
            /\ UNCHANGED <<raised, elapsed>>
    /\ UNCHANGED <<file, lock, op, file_handle,
                   sessions, outcome, fileBefore, newId, nextId, opsStarted, touchedBy, req>>
    /\ UNCHANGED pipeVars
    /\ UNCHANGED agentVars

\* FileLock line 82: fcntl.flock(fd, lock_type) without LOCK_NB returns
\* when the lock becomes available, and not before
BlockingLock(p) ==
    /\ pc[p] = "blocked"
    /\ Compatible(p, LockType(op[p]))
    /\ lock' = [lock EXCEPT ![p] = LockType(op[p])]
    /\ pc' = [pc EXCEPT ![p] = "yield"]
    /\ elapsed' = [elapsed EXCEPT ![p] = 0]
    /\ UNCHANGED <<file, op, file_handle, failElapsed, retry_count,
                   sessions, raised, outcome, fileBefore, newId,
                   nextId, opsStarted, touchedBy, req>>
    /\ UNCHANGED pipeVars
    /\ UNCHANGED agentVars

Acquiring(p) == pc[p] \in {"try", "sleep", "blocked"}

\* one tick passes for every caller that is inside the acquisition loop
Tick ==
    /\ \E p \in Procs : Acquiring(p) /\ elapsed[p] < MaxElapsed
    /\ elapsed' = [p \in Procs |->
                     IF Acquiring(p) THEN Min(elapsed[p] + 1, MaxElapsed)
                     ELSE elapsed[p]]
    /\ UNCHANGED <<file, lock, pc, op, file_handle, retry_count, failElapsed, sessions, raised, outcome, fileBefore, newId,
                   nextId, opsStarted, touchedBy, req>>
    /\ UNCHANGED pipeVars
    /\ UNCHANGED agentVars

\* atomic_session_operation lines 116-127: read and decode under the
\* exclusive lock; empty, undecodable or non-list content gives []
DecodeOrEmpty(f) == IF f.kind = "list" THEN f.items ELSE <<>>

\* the try/except around the read (lines 117-127) lets no decode error out
AtomicReadRaisesOnGarbage(f) == f.kind = "garbage"

AtomicReadRaises(f) == FALSE

ReadFile(p) ==
    /\ pc[p] = "yield"
    /\ op[p] # "load_sessions"
    /\ fileBefore' = [fileBefore EXCEPT ![p] = file]
    /\ IF AtomicReadRaises(file)
       THEN /\ raised' = [raised EXCEPT ![p] = "JSONDecodeError"]
            /\ pc' = [pc EXCEPT ![p] = "unlock"]
            /\ UNCHANGED sessions
       ELSE /\ sessions' = [sessions EXCEPT ![p] = DecodeOrEmpty(file)]
            /\ pc' = [pc EXCEPT ![p] = "block"]
            /\ UNCHANGED raised
    /\ UNCHANGED <<file, lock, op, file_handle, retry_count, elapsed, failElapsed,
                   outcome, newId, nextId, opsStarted, touchedBy, req>>
    /\ UNCHANGED pipeVars
    /\ UNCHANGED agentVars

\* load_sessions lines 40-49: json.load under the shared lock.  Empty or
\* undecodable content raises json.JSONDecodeError inside the with body;
\* a JSON value that is not a list returns [].
LoadRaises(f) == f.kind \in {"empty", "garbage"}

LoadRead(p) ==
    /\ pc[p] = "yield"
    /\ op[p] = "load_sessions"
    /\ fileBefore' = [fileBefore EXCEPT ![p] = file]
    /\ IF LoadRaises(file)
       THEN /\ raised' = [raised EXCEPT ![p] = "JSONDecodeError"]
            /\ UNCHANGED sessions
       ELSE /\ sessions' = [sessions EXCEPT ![p] = DecodeOrEmpty(file)]
            /\ UNCHANGED raised
    /\ pc' = [pc EXCEPT ![p] = "unlock"]
    /\ UNCHANGED <<file, lock, op, file_handle, retry_count, elapsed, failElapsed, outcome, newId, nextId, opsStarted, touchedBy, req>>
    /\ UNCHANGED pipeVars
    /\ UNCHANGED agentVars

\* atomic_session_operation lines 130-143: the write is in the else branch
\* of the try around the yield, so a block that raises skips it
AfterBlockAlwaysSaves(exc) == "truncate"

AfterBlock(exc) == IF exc = "none" THEN "truncate" ELSE "unlock"

\* The exception the caller's block ends with
BlockRaises(o) == IF o = "mutate_raise" THEN "Exception" ELSE "none"

\* next((s for s in sessions if s["id"] == session_id), None): the index of
\* the first session with the id, 0 when there is none
SessionIndex(list, session_id) ==
    IF \E i \in 1..Len(list) : list[i].id = session_id
    THEN CHOOSE i \in 1..Len(list) :
             /\ list[i].id = session_id
             /\ \A j \in 1..(i - 1) : list[j].id # session_id
    ELSE 0

\* what a block does to the list it was handed: the list it leaves, the
\* exception it ends with and the number of uuid4 ids it has drawn
BlockResult(list, exc, ids) == [sessions |-> list, raised |-> exc, ids |-> ids]

\* create_session and the block that appends and then raises
StoreBlock(o, list, id) == BlockResult(Append(list, Session(id)), BlockRaises(o), 1)

\* main.py 300-312: the user message is added unless the last message of the
\* session is a user message with the prompt as its content
SameUserMessage(msgs, prompt) ==
    /\ msgs # <<>>
    /\ msgs[Len(msgs)].role = "user"
    /\ msgs[Len(msgs)].content = prompt

\* the content of the assistant message (main.py 339-356)
Proposal == "proposal"

\* a block that adds the user message whatever the last message is
TurnBlockNoCheck(r, list, id) ==
    LET i == SessionIndex(list, r.session_id)
    IN IF i = 0 THEN BlockResult(list, "none", 0)
       ELSE IF r.raises
       THEN BlockResult([list EXCEPT ![i].messages =
                           Append(@, Message(id, "user", r.content))], "Exception", 1)
       ELSE BlockResult([list EXCEPT ![i].messages =
                           Append(Append(@, Message(id, "user", r.content)),
                                  Message(id + 1, "assistant", Proposal))],
                        "none", 2)

\* the block of orchestrate_agent, main.py 298-368: nothing for a session
\* that is not found; otherwise the user message, then the assistant
\* message, whose construction (lines 314-359) may raise
TurnBlock(r, list, id) ==
    LET i == SessionIndex(list, r.session_id)
        same == SameUserMessage(list[i].messages, r.content)
        used == IF same THEN 0 ELSE 1
        withUser == IF same THEN list[i].messages
                    ELSE Append(list[i].messages, Message(id, "user", r.content))
    IN IF i = 0 THEN BlockResult(list, "none", 0)
       ELSE IF r.raises
       THEN BlockResult([list EXCEPT ![i].messages = withUser], "Exception", used)
       ELSE BlockResult([list EXCEPT ![i].messages =
                           Append(withUser, Message(id + used, "assistant", Proposal))],
                        "none", used + 1)

\* the block of add_message, main.py 468-481
AddMessageBlock(r, list, id) ==
    LET i == SessionIndex(list, r.session_id)
    IN IF i = 0 THEN BlockResult(list, "HTTPException", 0)
       ELSE BlockResult([list EXCEPT ![i].messages =
                           Append(@, Message(id, r.role, r.content))],
                        "none", 1)

\* the except clauses of add_message, main.py 483-490: the status of the
\* response for what atomic_session_operation ended with
AddMessageStatus(out) ==
    IF out.status = "returned" THEN 200
    ELSE IF out.exc = "FileLockError" THEN 503
    ELSE IF out.exc = "HTTPException" THEN 404
    ELSE 500

Block(o, r, list, id) ==
    CASE o = "orchestrate_agent" -> TurnBlock(r, list, id)
      [] o = "add_message" -> AddMessageBlock(r, list, id)
      [] OTHER -> StoreBlock(o, list, id)

\* The caller's block.  create_session (main.py 427-438) appends a session
\* with a uuid4 id; mutate_raise is a block that appends and then raises.
BlockBody(p) ==
    /\ pc[p] = "block"
    /\ \E b \in {Block(op[p], req[p], sessions[p], nextId)} :
          /\ newId' = [newId EXCEPT ![p] = IF b.ids > 0 THEN nextId ELSE 0]
          /\ nextId' = nextId + b.ids
          /\ sessions' = [sessions EXCEPT ![p] = b.sessions]
          /\ raised' = [raised EXCEPT ![p] = b.raised]
          /\ pc' = [pc EXCEPT ![p] = AfterBlock(b.raised)]
    /\ UNCHANGED <<file, lock, op, file_handle, retry_count, elapsed, failElapsed,
                   outcome, fileBefore, opsStarted, touchedBy, req>>
    /\ UNCHANGED pipeVars
    /\ UNCHANGED agentVars

\* atomic_session_operation lines 138-139: f.seek(0); f.truncate()
Truncate(p) ==
    /\ pc[p] = "truncate"
    /\ file' = FileOf("empty", <<>>)
    /\ pc' = [pc EXCEPT ![p] = "dump"]
    /\ UNCHANGED <<lock, op, file_handle, retry_count, elapsed, failElapsed, sessions, raised, outcome, fileBefore, newId,
                   nextId, opsStarted, touchedBy, req>>
    /\ UNCHANGED pipeVars
    /\ UNCHANGED agentVars

\* atomic_session_operation lines 140-142: json.dump, flush, fsync
Dump(p) ==
    /\ pc[p] = "dump"
    /\ file' = FileOf("list", sessions[p])
    /\ pc' = [pc EXCEPT ![p] = "unlock"]
    /\ touchedBy' = IF touchedBy = p THEN 0 ELSE touchedBy
    /\ UNCHANGED <<lock, op, file_handle, retry_count, elapsed, failElapsed, sessions, raised, outcome, fileBefore, newId,
                   nextId, opsStarted, req>>
    /\ UNCHANGED pipeVars
    /\ UNCHANGED agentVars

\* a release that is skipped when an exception is on its way out
UnlockOnlyOnSuccess(p) ==
    /\ pc[p] = "unlock"
    /\ lock' = [lock EXCEPT ![p] = IF raised[p] = "none" THEN "none" ELSE lock[p]]
    /\ pc' = [pc EXCEPT ![p] = "close"]
    /\ UNCHANGED <<file, op, file_handle, retry_count, elapsed, failElapsed,
                   sessions, raised, outcome, fileBefore, newId,
                   nextId, opsStarted, touchedBy, req>>
    /\ UNCHANGED pipeVars
    /\ UNCHANGED agentVars

\* FileLock lines 105-110 (finally): flock(LOCK_UN)
Unlock(p) ==
    /\ pc[p] = "unlock"
    /\ lock' = [lock EXCEPT ![p] = "none"]
    /\ pc' = [pc EXCEPT ![p] = "close"]
    /\ UNCHANGED <<file, op, file_handle, retry_count, elapsed, failElapsed, sessions, raised, outcome, fileBefore, newId,
                   nextId, opsStarted, touchedBy, req>>
    /\ UNCHANGED pipeVars
    /\ UNCHANGED agentVars

\* FileLock lines 113-117 (finally): close the handle; the operation then
\* returns to its caller or raises what FileLock's except clauses made of
\* the exception
Close(p) ==
    /\ pc[p] = "close"
    /\ file_handle' = [file_handle EXCEPT ![p] = FALSE]
    /\ pc' = [pc EXCEPT ![p] = "done"]
    /\ outcome' = [outcome EXCEPT ![p] =
                     IF raised[p] = "none"
                     THEN Returned(sessions[p])
                     ELSE Raised(FileLockExcept(raised[p]))]
    /\ UNCHANGED <<file, lock, op, retry_count, elapsed, failElapsed,
                   sessions, raised, fileBefore, newId, nextId, opsStarted, req>>
    /\ touchedBy' = IF touchedBy = p THEN 0 ELSE touchedBy
    /\ UNCHANGED pipeVars
    /\ UNCHANGED agentVars

NextStore ==
    \/ \E p \in Procs, o \in StoreOps : Begin(p, o)
    \/ \E p \in Procs : Open(p)
    \/ \E p \in Procs : TryLock(p)
    \/ \E p \in Procs : Wake(p)
    \/ \E p \in Procs : BlockingLock(p)
    \/ Tick
    \/ \E p \in Procs : ReadFile(p)
    \/ \E p \in Procs : LoadRead(p)
    \/ \E p \in Procs : BlockBody(p)
    \/ \E p \in Procs : Truncate(p)
    \/ \E p \in Procs : Dump(p)
    \/ \E p \in Procs : Unlock(p)
    \/ \E p \in Procs : Close(p)

(***************************************************************************)
(* JSON values as the Python code sees them.  Every value is a record of   *)
(* one shape: t is the type tag ("null", "bool", "int", "float", "str",    *)
(* "list", "dict"), n the number (0/1 for a bool, tenths for a float), s   *)
(* the text, items the elements of a list or the values of a dict, keys    *)
(* the keys of a dict in insertion order.                                  *)
(***************************************************************************)
JNull == [t |-> "null", n |-> 0, s |-> "", keys |-> <<>>, items |-> <<>>]
JBool(b) == [t |-> "bool", n |-> IF b THEN 1 ELSE 0, s |-> "", keys |-> <<>>, items |-> <<>>]
JInt(i) == [t |-> "int", n |-> i, s |-> "", keys |-> <<>>, items |-> <<>>]
JFloat(tenths) == [t |-> "float", n |-> tenths, s |-> "", keys |-> <<>>, items |-> <<>>]
JStr(str) == [t |-> "str", n |-> 0, s |-> str, keys |-> <<>>, items |-> <<>>]
JList(elems) == [t |-> "list", n |-> 0, s |-> "", keys |-> <<>>, items |-> elems]
JDict(ks, vs) == [t |-> "dict", n |-> 0, s |-> "", keys |-> ks, items |-> vs]

EmptyDict == JDict(<<>>, <<>>)
D1(k1, v1) == JDict(<<k1>>, <<v1>>)
D2(k1, v1, k2, v2) == JDict(<<k1, k2>>, <<v1, v2>>)
D3(k1, v1, k2, v2, k3, v3) == JDict(<<k1, k2, k3>>, <<v1, v2, v3>>)
D4(k1, v1, k2, v2, k3, v3, k4, v4) == JDict(<<k1, k2, k3, k4>>, <<v1, v2, v3, v4>>)

IsDict(v) == v.t = "dict"
IsList(v) == v.t = "list"
\* isinstance(x, (int, float)); a Python bool is an int
IsNumber(v) == v.t \in {"int", "float", "bool"}

\* Python truth value
Truthy(v) ==
    CASE v.t = "null" -> FALSE
      [] v.t \in {"bool", "int", "float"} -> v.n # 0
      [] v.t = "str" -> v.s # ""
      [] OTHER -> Len(v.items) > 0

\* k in d, for a dict d
Has(d, k) == IsDict(d) /\ \E i \in 1..Len(d.keys) : d.keys[i] = k

KeyIndex(d, k) == CHOOSE i \in 1..Len(d.keys) : d.keys[i] = k

\* d.get(k, default)
GetOr(d, k, default) == IF Has(d, k) THEN d.items[KeyIndex(d, k)] ELSE default

\* d.get(k)
Get(d, k) == GetOr(d, k, JNull)

\* d[k] = v: an existing key keeps its place, a new key goes last
Put(d, k, v) ==
    IF Has(d, k)
    THEN JDict(d.keys, [d.items EXCEPT ![KeyIndex(d, k)] = v])
    ELSE JDict(Append(d.keys, k), Append(d.items, v))

\* d.pop(k, None)
Pop(d, k) ==
    IF Has(d, k)
    THEN LET i == KeyIndex(d, k)
             Keep(seq) == [j \in 1..(Len(seq) - 1) |-> IF j < i THEN seq[j] ELSE seq[j + 1]]
         IN JDict(Keep(d.keys), Keep(d.items))
    ELSE d

\* str.replace('_', ' ').title() for the metric names of the data set
TitleCase(key) ==
    CASE key = "conversion_rate" -> "Conversion Rate"
      [] key = "open_rate" -> "Open Rate"
      [] OTHER -> key

PointLabels(len) == [i \in 1..len |-> JStr("Point " \o ToString(i))]

\* str(x) for a text or an integer
PyStr(v) == IF v.t = "str" THEN v.s ELSE ToString(v.n)

\* float(x) for a number
PyFloat(v) == IF v.t = "float" THEN v ELSE JFloat(10 * v.n)

LineChart(title, xLabel, yLabel, labels, label, data) ==
    JDict(<<"title", "xLabel", "yLabel", "type", "data">>,
          <<JStr(title), JStr(xLabel), JStr(yLabel), JStr("line"),
            D2("labels", JList(labels),
               "datasets", JList(<<D4("label", JStr(label),
                                      "data", JList(data),
                                      "borderColor", JStr("rgb(59, 130, 246)"),
                                      "backgroundColor", JStr("rgba(59, 130, 246, 0.1)"))>>))>>)

AllNumbers(seq) == \A i \in 1..Len(seq) : IsNumber(seq[i])
AllPoints(seq) == \A i \in 1..Len(seq) : IsDict(seq[i]) /\ Has(seq[i], "x") /\ Has(seq[i], "y")

\* the first value of evidence.historical_performance that is a list of
\* two or more numbers, as a chart; None when there is none
PerfChart(perf) ==
    LET hits == {i \in 1..Len(perf.keys) :
                    IsList(perf.items[i]) /\ Len(perf.items[i].items) > 1
                    /\ AllNumbers(perf.items[i].items)}
    IN IF hits = {} THEN JNull
       ELSE LET i == CHOOSE h \in hits : \A g \in hits : h <= g
                title == TitleCase(perf.keys[i])
            IN LineChart(title \o " Over Time", "Time Period", title,
                         PointLabels(Len(perf.items[i].items)), title,
                         perf.items[i].items)

\* AgentOrchestrator._detect_chart_data
RECURSIVE _detect_chart_data(_)
RECURSIVE FirstChartIn(_)

\* the loop over data.items(): the first truthy detection among the values
FirstChartIn(values) ==
    IF values = <<>> THEN JNull
    ELSE LET c == _detect_chart_data(Head(values))
         IN IF Truthy(c) THEN c ELSE FirstChartIn(Tail(values))

_detect_chart_data(data) ==
    IF IsDict(data)
    THEN IF Has(data, "chart") /\ IsDict(Get(data, "chart"))
         THEN Get(data, "chart")
         ELSE IF Has(data, "chartData") /\ IsDict(Get(data, "chartData"))
         THEN Get(data, "chartData")
         ELSE LET evidence == Get(data, "evidence")
                  perf == Get(evidence, "historical_performance")
                  fromPerf == IF IsDict(evidence) /\ Has(evidence, "historical_performance")
                                 /\ IsDict(perf)
                              THEN PerfChart(perf) ELSE JNull
              IN IF fromPerf # JNull THEN fromPerf
                 ELSE FirstChartIn(data.items)
    ELSE IF IsList(data) /\ Len(data.items) > 1
    THEN IF AllNumbers(data.items)
         THEN LineChart("Data Visualization", "Index", "Value",
                        PointLabels(Len(data.items)), "Data", data.items)
         ELSE IF AllPoints(data.items)
         THEN LineChart("Data Visualization", "X Axis", "Y Axis",
                        [i \in 1..Len(data.items) |-> JStr(PyStr(Get(data.items[i], "x")))],
                        "Data",
                        [i \in 1..Len(data.items) |-> PyFloat(Get(data.items[i], "y"))])
         ELSE JNull
    ELSE JNull

(***************************************************************************)
(* The segment collection behind utils.data_access.get_segments            *)
(***************************************************************************)
SegmentRecord(id, name) == D3("id", JStr(id), "name", JStr(name), "size", JInt(100))

SegmentsCollection == << SegmentRecord("seg-1", "Loyal Customers"),
                         SegmentRecord("seg-2", "New Visitors") >>

\* next((s for s in all_segments if s.get("id") == seg_id), None)
FindSegment(seg_id) ==
    LET hits == {i \in 1..Len(SegmentsCollection) : Get(SegmentsCollection[i], "id") = seg_id}
    IN IF hits = {} THEN JNull
       ELSE SegmentsCollection[CHOOSE h \in hits : \A g \in hits : h <= g]

\* name.lower().replace(" ", "-") for the names of the data set
Slug(name) ==
    CASE name = "Weekend Shoppers" -> "weekend-shoppers"
      [] name = "" -> ""
      [] OTHER -> name

(***************************************************************************)
(* AgentOrchestrator._detect_recommendations.  The path argument is only   *)
(* tested for being "" and for containing "research"; it is kept as        *)
(* "root", "research" or "other".                                          *)
(***************************************************************************)
KeyMentionsResearch(key) == key \in {"research", "research_results"}

ChildPath(path, key) ==
    IF path = "research" \/ KeyMentionsResearch(key) THEN "research" ELSE "other"

Recommendations(type, items, title) ==
    D4("uiComponent", JStr("recommendations"), "type", JStr(type),
       "items", JList(items), "title", JStr(title))

OfType(seq, type) == SelectSeq(seq, LAMBDA item : Get(item, "type") = JStr(type))

\* lines 307-339: a non-empty list whose items all are dicts with a type
TypedListRecommendations(elems, path) ==
    LET campaigns == OfType(elems, "campaign")
        segments == OfType(elems, "segment")
        knowledge == OfType(elems, "knowledge")
        all_items == campaigns \o segments \o knowledge
        rec1 == IF campaigns # <<>>
                THEN (IF segments = <<>> THEN "campaign" ELSE "mixed")
                ELSE "mixed"
        rec2 == IF segments # <<>> /\ rec1 = "mixed"
                THEN (IF campaigns = <<>> THEN "segment" ELSE "mixed")
                ELSE rec1
        type == IF rec2 # "mixed" \/ (campaigns # <<>> /\ segments # <<>>)
                THEN rec2
                ELSE (IF campaigns # <<>> THEN "campaign" ELSE "segment")
    IN IF all_items # <<>>
       THEN Recommendations(type, all_items,
                            IF path = "root" THEN "Search Results" ELSE "Recommended Items")
       ELSE JNull

\* lines 341-353: a non-empty list of dicts, some with campaign or segment fields
PlainListRecommendations(elems) ==
    LET has_campaign_fields ==
            \E i \in 1..Len(elems) : Has(elems[i], "goals") \/ Has(elems[i], "segmentIds")
        has_segment_fields ==
            \E i \in 1..Len(elems) : Has(elems[i], "size") \/ Has(elems[i], "criteria")
        rec_type == IF has_campaign_fields /\ ~has_segment_fields THEN "campaign"
                    ELSE IF has_segment_fields /\ ~has_campaign_fields THEN "segment"
                    ELSE "mixed"
    IN IF has_campaign_fields \/ has_segment_fields
       THEN Recommendations(rec_type, elems, "Recommended Items")
       ELSE JNull

RECURSIVE ResolveSegments(_)
\* lines 386-396: the segments of the collection named by existing_segments
ResolveSegments(ids) ==
    IF ids = <<>> THEN <<>>
    ELSE LET segment == FindSegment(Head(ids))
         IN (IF Truthy(segment) THEN <<segment>> ELSE <<>>) \o ResolveSegments(Tail(ids))

\* lines 399-411: one suggested-segment record per dict of new_segment_suggestions
SuggestedSegments(suggestions) ==
    LET dicts == SelectSeq(suggestions, IsDict)
    IN [i \in 1..Len(dicts) |->
          D4("id", JStr(Slug(GetOr(dicts[i], "name", JStr("")).s)),
             "name", GetOr(dicts[i], "name", JStr("New Segment")),
             "description", GetOr(dicts[i], "criteria",
                                  GetOr(dicts[i], "description", JStr(""))),
             "isSuggested", JBool(TRUE))]

\* lines 378-419
AudienceRecommendations(audience_recs) ==
    LET existing == Get(audience_recs, "existing_segments")
        suggested == Get(audience_recs, "new_segment_suggestions")
        recommendations ==
            (IF Has(audience_recs, "existing_segments") /\ IsList(existing)
             THEN ResolveSegments(existing.items) ELSE <<>>)
            \o (IF Has(audience_recs, "new_segment_suggestions") /\ IsList(suggested)
                THEN SuggestedSegments(suggested.items) ELSE <<>>)
    IN IF recommendations # <<>>
       THEN Recommendations("segment", recommendations, "Recommended Segments")
       ELSE JNull

\* lines 422-447
HistoricalCampaignRecommendations(campaigns, path) ==
    LET Recommended(campaign) ==
            /\ IsDict(campaign)
            /\ \/ Truthy(Get(campaign, "recommended"))
               \/ Truthy(Get(campaign, "isRecommended"))
               \/ Has(campaign, "performance")
               \/ Get(campaign, "status") = JStr("completed")
               \/ path \in {"root", "research"}
        recommended_campaigns == SelectSeq(campaigns, Recommended)
    IN IF recommended_campaigns # <<>>
       THEN Recommendations("campaign", recommended_campaigns, "Recommended Campaigns")
       ELSE JNull

RECURSIVE _detect_recommendations(_, _)
RECURSIVE FirstRecommendationsIn(_, _, _)

\* the loop over data.items(): the first truthy detection among the values
FirstRecommendationsIn(ks, values, path) ==
    IF values = <<>> THEN JNull
    ELSE LET r == _detect_recommendations(Head(values), ChildPath(path, Head(ks)))
         IN IF Truthy(r) THEN r ELSE FirstRecommendationsIn(Tail(ks), Tail(values), path)

_detect_recommendations(data, path) ==
    LET fromList ==
            IF IsList(data) /\ Len(data.items) > 0
            THEN IF \A i \in 1..Len(data.items) :
                        IsDict(data.items[i]) /\ Has(data.items[i], "type")
                 THEN TypedListRecommendations(data.items, path)
                 ELSE IF \A i \in 1..Len(data.items) : IsDict(data.items[i])
                 THEN PlainListRecommendations(data.items)
                 ELSE JNull
            ELSE JNull
        analysis == Get(data, "analysis")
        fromAnalysis ==
            IF Has(data, "analysis") /\ IsDict(analysis)
               /\ Has(analysis, "audience_recommendations")
            THEN AudienceRecommendations(Get(analysis, "audience_recommendations"))
            ELSE JNull
        evidence == Get(data, "evidence")
        fromEvidence ==
            IF Has(data, "evidence") /\ IsDict(evidence)
               /\ Has(evidence, "historical_campaigns")
               /\ IsList(Get(evidence, "historical_campaigns"))
            THEN HistoricalCampaignRecommendations(
                     Get(evidence, "historical_campaigns").items, path)
            ELSE JNull
    IN IF fromList # JNull THEN fromList
       ELSE IF ~IsDict(data) THEN JNull
       ELSE IF Has(data, "recommendations") /\ IsDict(Get(data, "recommendations"))
       THEN Get(data, "recommendations")
       ELSE IF Has(data, "recommended_campaigns") /\ IsList(Get(data, "recommended_campaigns"))
       THEN Recommendations("campaign", Get(data, "recommended_campaigns").items,
                            "Recommended Campaigns")
       ELSE IF Has(data, "recommended_segments") /\ IsList(Get(data, "recommended_segments"))
       THEN Recommendations("segment", Get(data, "recommended_segments").items,
                            "Recommended Segments")
       ELSE IF fromAnalysis # JNull THEN fromAnalysis
       ELSE IF fromEvidence # JNull THEN fromEvidence
       ELSE FirstRecommendationsIn(data.keys, data.items, path)

(***************************************************************************)
(* AgentOrchestrator._format_source_references                             *)
(***************************************************************************)
\* seq[:5]
SourceLimit == 5

FirstFive(seq) == SubSeq(seq, 1, Min(SourceLimit, Len(seq)))

HasSourceId(sources, id) == \E i \in 1..Len(sources) : Get(sources[i], "id") = id

RECURSIVE AddCampaignSources(_, _)
\* lines 487-497 and 526-534: append {id, name} of each dict with a truthy
\* id that is not listed yet
AddCampaignSources(source_campaigns, campaigns) ==
    IF campaigns = <<>> THEN source_campaigns
    ELSE LET campaign == Head(campaigns)
             campaign_id == Get(campaign, "id")
             added == IF IsDict(campaign) /\ Truthy(campaign_id)
                         /\ ~HasSourceId(source_campaigns, campaign_id)
                      THEN Append(source_campaigns,
                                  D2("id", campaign_id,
                                     "name", GetOr(campaign, "name", campaign_id)))
                      ELSE source_campaigns
         IN AddCampaignSources(added, Tail(campaigns))

RECURSIVE AddSegmentSources(_, _)
\* lines 510-518
AddSegmentSources(source_segments, seg_ids) ==
    IF seg_ids = <<>> THEN source_segments
    ELSE LET seg_id == Head(seg_ids)
             segment == FindSegment(seg_id)
             added == IF Truthy(segment) /\ ~HasSourceId(source_segments, seg_id)
                      THEN Append(source_segments,
                                  D2("id", seg_id, "name", GetOr(segment, "name", seg_id)))
                      ELSE source_segments
         IN AddSegmentSources(added, Tail(seg_ids))

\* the historical campaigns an evidence record contributes
EvidenceCampaigns(holder) ==
    LET evidence == GetOr(holder, "evidence", EmptyDict)
        historical == GetOr(evidence, "historical_campaigns", JList(<<>>))
    IN IF IsDict(holder) /\ Truthy(evidence) /\ Truthy(historical)
       THEN FirstFive(historical.items) ELSE <<>>

\* the existing segments a research result contributes (only looked at when
\* the result has evidence)
EvidenceSegments(result) ==
    LET evidence == GetOr(result, "evidence", EmptyDict)
        analysis == GetOr(result, "analysis", EmptyDict)
        audience_recs == GetOr(analysis, "audience_recommendations", EmptyDict)
        existing == GetOr(audience_recs, "existing_segments", JList(<<>>))
    IN IF IsDict(result) /\ Truthy(evidence) /\ Truthy(analysis)
          /\ Truthy(audience_recs) /\ Truthy(existing)
       THEN FirstFive(existing.items) ELSE <<>>

IsResearchStep(step) == Get(step, "agent") = JStr("research")

RECURSIVE StepCampaignSources(_, _)
StepCampaignSources(source_campaigns, steps) ==
    IF steps = <<>> THEN source_campaigns
    ELSE StepCampaignSources(
             IF IsResearchStep(Head(steps))
             THEN AddCampaignSources(source_campaigns,
                                     EvidenceCampaigns(GetOr(Head(steps), "result", EmptyDict)))
             ELSE source_campaigns,
             Tail(steps))

RECURSIVE StepSegmentSources(_, _)
StepSegmentSources(source_segments, steps) ==
    IF steps = <<>> THEN source_segments
    ELSE StepSegmentSources(
             IF IsResearchStep(Head(steps))
             THEN AddSegmentSources(source_segments,
                                    EvidenceSegments(GetOr(Head(steps), "result", EmptyDict)))
             ELSE source_segments,
             Tail(steps))

StepResultsOf(execution_result) == GetOr(execution_result, "step_results", JList(<<>>)).items

\* source_campaigns and source_segments at line 536
SourceCampaigns(execution_result, final_result) ==
    AddCampaignSources(StepCampaignSources(<<>>, StepResultsOf(execution_result)),
                       EvidenceCampaigns(final_result))

SourceSegments(execution_result) == StepSegmentSources(<<>>, StepResultsOf(execution_result))

RECURSIVE JoinRefs(_, _)
\* ", ".join("[name](grounding://kind/id)" for each source)
JoinRefs(sources, kind) ==
    IF sources = <<>> THEN ""
    ELSE LET ref == "[" \o PyStr(Get(Head(sources), "name")) \o "](grounding://"
                    \o kind \o "/" \o PyStr(Get(Head(sources), "id")) \o ")"
         IN IF Tail(sources) = <<>> THEN ref
            ELSE ref \o ", " \o JoinRefs(Tail(sources), kind)

\* lines 536-551: the markdown block for the sources found
BasedOnBlock(source_campaigns, source_segments) ==
    IF source_campaigns = <<>> /\ source_segments = <<>> THEN ""
    ELSE "\n\n---\n\n**Based on:**\n\n"
         \o (IF source_campaigns # <<>>
             THEN "**Campaigns:** " \o JoinRefs(source_campaigns, "campaign") \o "\n\n"
             ELSE "")
         \o (IF source_segments # <<>>
             THEN "**Segments:** " \o JoinRefs(source_segments, "segment") \o "\n\n"
             ELSE "")

_format_source_references(execution_result, final_result) ==
    BasedOnBlock(SourceCampaigns(execution_result, final_result),
                 SourceSegments(execution_result))

(***************************************************************************)
(* AgentOrchestrator._format_response                                      *)
(***************************************************************************)
Component(type, data) == D2("type", JStr(type), "data", data)

\* copy.deepcopy(config) without uiComponents and primaryComponent
WithoutUi(config) == Pop(Pop(config, "uiComponents"), "primaryComponent")

\* any(c.get("type") in types for c in ui_components)
HasComponent(ui_components, types) ==
    \E i \in 1..Len(ui_components) :
        Get(ui_components[i], "type").t = "str" /\ Get(ui_components[i], "type").s \in types

\* next((c for c in ui_components if c["type"] in types), None), as its type
FirstComponentType(ui_components, types) ==
    LET hits == {i \in 1..Len(ui_components) :
                    Get(ui_components[i], "type").t = "str"
                    /\ Get(ui_components[i], "type").s \in types}
    IN Get(ui_components[CHOOSE h \in hits : \A g \in hits : h <= g], "type").s

\* a selection that applies the chart-first order to every intent
PrimaryOfChartFirst(intent, ui_components) ==
    IF HasComponent(ui_components, {"chart"}) THEN "chart"
    ELSE IF HasComponent(ui_components, {"recommendations"}) THEN "recommendations"
    ELSE IF HasComponent(ui_components, {"campaign", "campaign_form", "segment", "segment_form"})
    THEN FirstComponentType(ui_components,
                            {"campaign", "campaign_form", "segment", "segment_form"})
    ELSE Get(ui_components[1], "type").s

\* lines 767-833: the primary component for a non-empty component list
PrimaryOf(intent, ui_components) ==
    IF intent = "campaign_generation"
    THEN IF HasComponent(ui_components, {"campaign_form"}) THEN "campaign_form"
         ELSE IF HasComponent(ui_components, {"recommendations"}) THEN "recommendations"
         ELSE IF HasComponent(ui_components, {"chart"}) THEN "chart"
         ELSE Get(ui_components[1], "type").s
    ELSE IF intent = "audience_generation"
    THEN IF HasComponent(ui_components, {"segment", "segment_form"})
         THEN FirstComponentType(ui_components, {"segment", "segment_form"})
         ELSE IF HasComponent(ui_components, {"recommendations"}) THEN "recommendations"
         ELSE IF HasComponent(ui_components, {"chart"}) THEN "chart"
         ELSE Get(ui_components[1], "type").s
    ELSE IF HasComponent(ui_components, {"chart"}) THEN "chart"
         ELSE IF HasComponent(ui_components, {"recommendations"}) THEN "recommendations"
         ELSE IF HasComponent(ui_components, {"campaign", "campaign_form", "segment", "segment_form"})
         THEN FirstComponentType(ui_components,
                                 {"campaign", "campaign_form", "segment", "segment_form"})
         ELSE Get(ui_components[1], "type").s

\* lines 562-571
PanelOfIntent(intent) ==
    CASE intent = "campaign_generation" -> "campaign_form"
      [] intent = "audience_generation" -> "segment_form"
      [] intent = "search" -> "search_results"
      [] intent = "research" -> "research_analysis"
      [] OTHER -> "default"

\* "campaign" in final_result
InCampaign(final_result) ==
    \/ Has(final_result, "campaign")
    \/ IsList(final_result)
       /\ \E i \in 1..Len(final_result.items) : final_result.items[i] = JStr("campaign")
    \/ final_result.t = "str" /\ final_result.s = "campaign"

\* line 596 raises TypeError when final_result has no membership test, line
\* 597 when it is a list or text holding "campaign"
FormatRaises(final_result) ==
    \/ final_result.t \in {"null", "bool", "int", "float"}
    \/ InCampaign(final_result) /\ ~IsDict(final_result)

\* lines 577-594: the rationale, None when there is none
RationaleOf(final_result, execution_result) ==
    LET direct == Get(final_result, "rationale")
        analysis == Get(final_result, "analysis")
        rationale == IF ~IsDict(final_result) THEN JNull
                     ELSE IF ~Truthy(direct) /\ Truthy(analysis) /\ IsDict(analysis)
                     THEN Get(analysis, "rationale")
                     ELSE direct
        source_references == _format_source_references(execution_result, final_result)
    IN IF source_references # "" /\ Truthy(rationale)
       THEN JStr(rationale.s \o source_references)
       ELSE IF source_references # ""
       THEN JStr("Analysis completed." \o source_references)
       ELSE rationale

RECURSIVE PreserveKeys(_, _, _)
\* lines 603-605
PreserveKeys(campaign_config, final_result, ks) ==
    IF ks = <<>> THEN campaign_config
    ELSE PreserveKeys(
             IF Has(final_result, Head(ks)) /\ ~Has(campaign_config, Head(ks))
             THEN Put(campaign_config, Head(ks), Get(final_result, Head(ks)))
             ELSE campaign_config,
             final_result, Tail(ks))

\* lines 596-619: campaign_config before the components are assembled
ConfigOf(final_result, rationale) ==
    LET base == IF Has(final_result, "campaign")
                THEN PreserveKeys(IF IsDict(Get(final_result, "campaign"))
                                  THEN Get(final_result, "campaign") ELSE EmptyDict,
                                  final_result, <<"rationale", "analysis", "evidence">>)
                ELSE IF IsList(final_result) /\ Truthy(final_result)
                THEN D2("type", JStr("search_results"), "items", final_result)
                ELSE IF IsDict(final_result) THEN final_result ELSE EmptyDict
    IN IF Truthy(rationale) THEN Put(base, "rationale", rationale) ELSE base

\* campaign_config is final_result itself, or final_result["campaign"]
\* itself, when those are dicts: final_result as it reads after the
\* assignments of lines 603-619
AliasedFinal(final_result, campaign_config) ==
    IF Has(final_result, "campaign")
    THEN IF IsDict(Get(final_result, "campaign"))
         THEN Put(final_result, "campaign", campaign_config)
         ELSE final_result
    ELSE IF IsDict(final_result) THEN campaign_config ELSE final_result

\* the first step result that is a dict with the given key, as result[key]
FirstStepField(steps, key) ==
    LET hits == {i \in 1..Len(steps) :
                    IsDict(GetOr(steps[i], "result", EmptyDict))
                    /\ Has(GetOr(steps[i], "result", EmptyDict), key)}
    IN IF hits = {} THEN JNull
       ELSE Get(GetOr(steps[CHOOSE h \in hits : \A g \in hits : h <= g], "result", EmptyDict), key)

RECURSIVE FirstStepRecommendations(_, _)
\* the first truthy detection among the dict results of the steps
\* (of the research steps only when researchOnly is set)
FirstStepRecommendations(steps, researchOnly) ==
    IF steps = <<>> THEN JNull
    ELSE LET result == GetOr(Head(steps), "result", EmptyDict)
             detected == IF (~researchOnly \/ IsResearchStep(Head(steps))) /\ IsDict(result)
                         THEN _detect_recommendations(result, "root") ELSE JNull
         IN IF Truthy(detected) THEN detected
            ELSE FirstStepRecommendations(Tail(steps), researchOnly)

\* lines 621-698: the components contributed by the intent
IntentComponents(intent, campaign_config, final_result) ==
    (IF intent = "campaign_generation"
     THEN <<Component("campaign_form", WithoutUi(campaign_config))>> ELSE <<>>)
    \o (IF intent = "audience_generation" /\ Truthy(campaign_config)
        THEN <<Component(IF Truthy(Get(campaign_config, "name"))
                         THEN "segment" ELSE "segment_form",
                         WithoutUi(campaign_config))>>
        ELSE <<>>)
    \o (IF intent = "research"
        THEN <<Component("research_analysis", WithoutUi(campaign_config))>> ELSE <<>>)
    \o (IF intent = "knowledge_generation" /\ Truthy(campaign_config)
        THEN <<Component(IF Truthy(Get(campaign_config, "title"))
                            \/ Truthy(Get(campaign_config, "id"))
                         THEN "knowledge" ELSE "knowledge_list",
                         WithoutUi(campaign_config))>>
        ELSE <<>>)
    \o (IF intent = "search" /\ IsList(final_result) /\ Len(final_result.items) > 0
        THEN <<Component("recommendations",
                  JDict(<<"uiComponent", "type", "items", "title", "description">>,
                        <<JStr("recommendations"), JStr("mixed"), final_result,
                          JStr("Search Results"),
                          JStr("Found " \o ToString(Len(final_result.items))
                               \o " result(s)")>>))>>
        ELSE <<>>)

\* lines 700-712
ChartData(final_result, steps) ==
    LET chart_data == _detect_chart_data(final_result)
    IN IF Truthy(chart_data) THEN chart_data ELSE FirstStepField(steps, "chart")

\* lines 717-757
RecommendationsData(intent, final_result, steps) ==
    LET fromResearch == IF intent = "campaign_generation"
                        THEN FirstStepRecommendations(steps, TRUE) ELSE JNull
        fromFinal == IF Truthy(fromResearch) THEN fromResearch
                     ELSE IF intent # "search" \/ ~IsList(final_result)
                     THEN _detect_recommendations(final_result, "root")
                     ELSE JNull
        fromTool == IF Truthy(fromFinal) THEN fromFinal
                    ELSE FirstStepField(steps, "recommendations")
    IN IF Truthy(fromTool) THEN fromTool
       ELSE FirstStepRecommendations(steps, FALSE)

\* lines 621-765: ui_components
UiComponents(intent, campaign_config, final_result, chart_data, recommendations_data) ==
    LET fromIntent == IntentComponents(intent, campaign_config, final_result)
        withChart == IF Truthy(chart_data)
                     THEN Append(fromIntent, Component("chart", chart_data))
                     ELSE fromIntent
    IN IF Truthy(recommendations_data) /\ ~HasComponent(withChart, {"recommendations"})
       THEN Append(withChart, Component("recommendations", recommendations_data))
       ELSE withChart

\* step_results with the result of the last record replaced: the record
\* holds the very object that final_result names
WithLastResult(steps, value) ==
    IF steps # <<>> /\ Has(steps[Len(steps)], "result")
    THEN [steps EXCEPT ![Len(steps)] = Put(steps[Len(steps)], "result", value)]
    ELSE steps

\* lines 852-875, when no component was assembled
SingleFormFallback(intent, campaign_config, chart_data, recommendations_data) ==
    IF intent \in {"campaign_generation", "audience_generation"}
    THEN LET form == IF intent = "campaign_generation" THEN "campaign_form" ELSE "segment_form"
             withForm == Put(Put(campaign_config, "uiComponents",
                                 JList(<<Component(form, Pop(campaign_config, "uiComponents"))>>)),
                             "primaryComponent", JStr(form))
             withChart == IF Truthy(chart_data) THEN Put(withForm, "chart", chart_data)
                          ELSE withForm
         IN IF Truthy(recommendations_data)
            THEN Put(withChart, "recommendations", recommendations_data)
            ELSE withChart
    ELSE campaign_config

\* lines 877-891
SafetyNet(intent, campaign_config) ==
    IF intent \in {"campaign_generation", "audience_generation"}
       /\ ~Has(campaign_config, "uiComponents")
    THEN LET form == IF intent = "campaign_generation" THEN "campaign_form" ELSE "segment_form"
         IN Put(Put(campaign_config, "uiComponents",
                    JList(<<Component(form, Pop(campaign_config, "uiComponents"))>>)),
                "primaryComponent", JStr(form))
    ELSE campaign_config

\* lines 893-929: applied only when campaign_config has no uiComponents
\* entry or a falsy one
FinalValidation(intent, campaign_config, final_result) ==
    IF ~Has(campaign_config, "uiComponents") \/ ~Truthy(Get(campaign_config, "uiComponents"))
    THEN LET fallback_data == WithoutUi(campaign_config)
             type == CASE intent = "campaign_generation" -> "campaign_form"
                       [] intent = "audience_generation" -> "segment_form"
                       [] intent = "research" -> "research_analysis"
                       [] intent = "search" ->
                            IF IsList(final_result) /\ Truthy(final_result)
                            THEN "recommendations" ELSE "research_analysis"
                       [] intent = "knowledge_generation" -> "knowledge_list"
                       [] OTHER -> "research_analysis"
             data == IF type = "recommendations"
                     THEN D3("type", JStr("mixed"), "items", final_result,
                             "title", JStr("Search Results"))
                     ELSE fallback_data
         IN Put(Put(campaign_config, "uiComponents", JList(<<Component(type, data)>>)),
                "primaryComponent", JStr(type))
    ELSE campaign_config

\* lines 835-929: campaign_config after the components are merged in and
\* the fallbacks are applied
MergedConfig(intent, config619, final_result, ui_components, primary_component, chart_data, recommendations_data) ==
    LET config837 == IF Truthy(config619) THEN config619 ELSE EmptyDict
        merged == IF ui_components # <<>>
                  THEN Put(Put(config837, "uiComponents", JList(ui_components)),
                           "primaryComponent", JStr(primary_component))
                  ELSE SingleFormFallback(intent, config837, chart_data,
                                          recommendations_data)
    IN FinalValidation(intent, SafetyNet(intent, merged), final_result)

\* lines 770-833: primary_component, "" standing for None
PrimaryComponent(intent, ui_components) ==
    IF ui_components # <<>> THEN PrimaryOf(intent, ui_components)
    ELSE IF intent = "campaign_generation" THEN "campaign_form"
    ELSE IF intent = "audience_generation" THEN "segment_form"
    ELSE ""

\* experience_panel_type at line 947
ExperiencePanelType(intent, primary_component) ==
    IF primary_component # "" THEN primary_component ELSE PanelOfIntent(intent)

\* execution_result.get("step_results", []) at line 948; when aliased, its
\* last record shows final_result as the formatter left it
ReasoningSteps(execution_result, aliased, final_after) ==
    IF Has(execution_result, "step_results")
    THEN (IF aliased
          THEN JList(WithLastResult(StepResultsOf(execution_result), final_after))
          ELSE Get(execution_result, "step_results"))
    ELSE JList(<<>>)

\* lines 943-961
Response(intent, classification, campaign_config, final_after, experience_panel_type, reasoningSteps, execution_result, rationale) ==
    LET response == JDict(<<"intent", "classification", "campaignConfig",
                            "experiencePanelType", "reasoningSteps", "success">>,
                          <<JStr(intent), classification,
                            IF Truthy(campaign_config) THEN campaign_config ELSE final_after,
                            JStr(experience_panel_type), reasoningSteps,
                            GetOr(execution_result, "success", JBool(TRUE))>>)
    IN IF Truthy(rationale) THEN Put(response, "rationale", rationale) ELSE response

(***************************************************************************)
(* AgentOrchestrator._classify_intent and _create_plan, applied to the     *)
(* result of the agent when it is a dict.                                  *)
(***************************************************************************)
ValidIntents == {"research", "campaign_generation", "audience_generation", "search"}

\* result["confidence"] = 0.5, in tenths
OverrideConfidenceTenths == 5

\* intent not in valid_intents
IntentInvalid(result) ==
    LET intent == GetOr(result, "intent", JStr(""))
    IN ~(intent.t = "str" /\ intent.s \in ValidIntents)

\* an override that falls back to the research intent
_classify_intent_to_research(result) ==
    IF IntentInvalid(result)
    THEN Put(Put(result, "intent", JStr("research")),
             "confidence", JFloat(OverrideConfidenceTenths))
    ELSE result

\* lines 110-118, applied to the classification agent's result
_classify_intent(result) ==
    IF IntentInvalid(result)
    THEN Put(Put(result, "intent", JStr("campaign_generation")),
             "confidence", JFloat(OverrideConfidenceTenths))
    ELSE result

PlanStep(step, agent, action, inputKey, prompt) ==
    D4("step", JInt(step), "agent", JStr(agent), "action", JStr(action),
       "input", D1(inputKey, JStr(prompt)))

PlanOf(steps) == D2("plan", JList(steps), "estimated_steps", JInt(Len(steps)))

\* templates in which the campaign step comes before the research step
DefaultPlanCampaignFirst(intent, prompt) ==
    CASE intent = "campaign_generation" ->
           PlanOf(<<PlanStep(1, "campaign", "Generate campaign configuration", "prompt", prompt),
                    PlanStep(2, "research", "Analyze campaign requirements", "prompt", prompt)>>)
      [] intent = "audience_generation" ->
           PlanOf(<<PlanStep(1, "audience", "Generate audience segment", "prompt", prompt)>>)
      [] intent = "research" ->
           PlanOf(<<PlanStep(1, "research", "Perform research analysis", "prompt", prompt)>>)
      [] intent = "search" ->
           PlanOf(<<PlanStep(1, "search", "Search for items", "query", prompt)>>)

\* lines 133-186
DefaultPlan(intent, prompt) ==
    CASE intent = "campaign_generation" ->
           PlanOf(<<PlanStep(1, "research", "Analyze campaign requirements", "prompt", prompt),
                    PlanStep(2, "campaign", "Generate campaign configuration", "prompt", prompt)>>)
      [] intent = "audience_generation" ->
           PlanOf(<<PlanStep(1, "audience", "Generate audience segment", "prompt", prompt)>>)
      [] intent = "research" ->
           PlanOf(<<PlanStep(1, "research", "Perform research analysis", "prompt", prompt)>>)
      [] intent = "search" ->
           PlanOf(<<PlanStep(1, "search", "Search for items", "query", prompt)>>)

\* lines 127-188, applied to the planning agent's result
_create_plan(result, classification, prompt) ==
    LET intent == Get(classification, "intent")
    IN IF ~Truthy(Get(result, "plan")) /\ intent.t = "str" /\ intent.s \in ValidIntents
       THEN DefaultPlan(intent.s, prompt)
       ELSE result

\* str(e) of the AttributeError that result.get raises on a result that
\* is not a dict
NoGet(result) ==
    "'" \o (IF result.t = "list" THEN "list" ELSE "str") \o "' object has no attribute 'get'"

\* an orchestrate that goes on to the next stage whatever the result
NextStageIgnoringErrors(stage, failed) ==
    IF stage = "classify" THEN "plan" ELSE "execute_begin"

\* orchestrate lines 63-64 and 73-74: a truthy error field in the result of
\* a stage ends the call, otherwise the next stage follows
NextStage(stage, failed) ==
    IF failed THEN "done"
    ELSE IF stage = "classify" THEN "plan" ELSE "execute_begin"

\* an orchestrate without the except clause: nothing is returned
NoEnvelope(message) == JNull

\* the except clause of orchestrate, lines 93-99
OrchestrationError(message) ==
    D3("error", JBool(TRUE), "error_type", JStr("orchestration_error"),
       "message", JStr(message))

(***************************************************************************)
(* PlanExecutor.execute                                                    *)
(***************************************************************************)
\* line 50
FreshContext == D2("results", EmptyDict, "step_results", JList(<<>>))

\* plan.get("plan", []) as the for loop of line 55 walks it: the elements
\* of a list, the keys of a dict
PlanSteps(plan) ==
    LET steps == GetOr(plan, "plan", JList(<<>>))
    IN IF IsDict(steps)
       THEN [i \in 1..Len(steps.keys) |-> JStr(steps.keys[i])]
       ELSE steps.items

\* the agents of PlanExecutor.__init__
Agents == {"research", "campaign", "audience", "journey"}

\* agent_name as a key of context["results"]
AgentKey(step) == IF Get(step, "agent").t = "str" THEN Get(step, "agent").s ELSE "None"

\* lines 65-70
StepRecord(step, result) ==
    D4("step", GetOr(step, "step", JInt(0)), "agent", Get(step, "agent"),
       "result", result,
       "success", JBool(~Truthy(GetOr(result, "error", JBool(FALSE)))))

\* lines 77-82
ErrorRecord(step, message) ==
    D4("step", GetOr(step, "step", JInt(0)), "agent", Get(step, "agent"),
       "error", JStr(message), "success", JBool(FALSE))

\* context["step_results"].append(record)
AppendStepResult(context, record) ==
    Put(context, "step_results", JList(Append(Get(context, "step_results").items, record)))

\* the except clause of the loop, lines 75-82: its own lookup of
\* context["step_results"] raises KeyError when the entry is missing
StepHandler(context, step, message) ==
    IF Has(context, "step_results")
    THEN [raises |-> FALSE, message |-> "",
          context |-> AppendStepResult(context, ErrorRecord(step, message))]
    ELSE [raises |-> TRUE, message |-> "'step_results'", context |-> context]

\* one turn of the loop, lines 55-82, for what _execute_step did
\* (ran.raises with ran.message, or ran.value returned)
StepEffect(context, step, ran) ==
    IF ~IsDict(step)
    THEN [raises |-> TRUE, message |-> "'str' object has no attribute 'get'",
          context |-> context]
    ELSE IF ran.raises
    THEN StepHandler(context, step, ran.message)
    ELSE IF ~Has(context, "step_results")
    THEN StepHandler(context, step, "'step_results'")
    ELSE IF ~IsDict(ran.value)
    THEN StepHandler(context, step, "'list' object has no attribute 'get'")
    ELSE LET recorded == AppendStepResult(context, StepRecord(step, ran.value))
         IN IF Has(recorded, "results")
            THEN [raises |-> FALSE, message |-> "",
                  context |-> Put(recorded, "results",
                                  Put(Get(recorded, "results"), AgentKey(step),
                                      ran.value))]
            ELSE StepHandler(recorded, step, "'results'")

\* _execute_step lines 119-122: what the campaign agent is handed as
\* research_results; the other agents are handed the prompt and the context
NoAuxiliary == [given |-> FALSE, value |-> JNull]

AuxiliaryInput(context, step) ==
    IF Get(step, "agent") = JStr("campaign")
    THEN [given |-> TRUE,
          value |-> IF Truthy(context)
                    THEN Get(GetOr(context, "results", EmptyDict), "research")
                    ELSE JNull]
    ELSE NoAuxiliary

\* lines 84-94
ExecuteReturn(context) ==
    LET step_results == Get(context, "step_results")
        last == step_results.items[Len(step_results.items)]
    IN IF ~Has(context, "step_results")
       THEN [raises |-> TRUE, message |-> "'step_results'", value |-> JNull]
       ELSE IF ~Truthy(step_results)
       THEN [raises |-> FALSE, message |-> "",
             value |-> D2("success", JBool(FALSE), "error", JStr("No steps executed"))]
       ELSE IF ~Has(last, "result")
       THEN [raises |-> TRUE, message |-> "'result'", value |-> JNull]
       ELSE IF ~Has(context, "results")
       THEN [raises |-> TRUE, message |-> "'results'", value |-> JNull]
       ELSE [raises |-> FALSE, message |-> "",
             value |-> D4("success", JBool(TRUE), "final_result", Get(last, "result"),
                          "all_results", Get(context, "results"),
                          "step_results", step_results)]

(***************************************************************************)
(* Inputs: what the agents, the search and the callers supply              *)
(***************************************************************************)
Prompt == "Launch a spring sale"

ResearchResult ==
    D2("analysis",
       D2("rationale", JStr("Spring buyers respond to discounts"),
          "audience_recommendations",
          D1("existing_segments", JList(<<JStr("seg-1")>>))),
       "evidence",
       D2("historical_campaigns",
          JList(<<D3("id", JStr("camp-1"), "name", JStr("Spring Sale 2023"),
                     "status", JStr("completed"))>>),
          "historical_performance",
          D1("conversion_rate", JList(<<JInt(2), JInt(3)>>))))

\* a result of the show_chart / show_recommendations tools
ToolResult ==
    D2("chart", D2("type", JStr("bar"), "title", JStr("Revenue")),
       "recommendations",
       Recommendations("segment", <<SegmentRecord("seg-2", "New Visitors")>>,
                       "Recommended Segments"))

CampaignResult ==
    D2("campaign", D2("name", JStr("Spring Sale"), "goals", JList(<<JStr("conversion")>>)),
       "rationale", JStr("Discount-led campaign"))

SegmentResult == D2("name", JStr("Loyal Customers"), "criteria", JStr("orders > 3"))

\* BaseAgent._handle_error
ErrorEnvelope(agent) ==
    D4("error", JBool(TRUE), "error_type", JStr("APIError"),
       "message", JStr("LLM unavailable"), "agent", JStr(agent))

\* BaseAgent._parse_response for content that is not JSON
RawContent == D2("content", JStr("I am not sure"), "raw", JBool(TRUE))

\* PlanExecutor._handle_search: a list, empty when nothing matches
SearchResults ==
    JList(<<D4("type", JStr("campaign"), "id", JStr("camp-1"),
               "title", JStr("Spring Sale 2023"), "description", JStr(""))>>)

\* results that carry the formatter's own output fields
StaleComponents == D1("uiComponents", JList(<<D2("type", JStr("x"), "data", EmptyDict)>>))
StalePrimary ==
    D2("uiComponents", JList(<<D1("type", JStr("chart"))>>), "primaryComponent", JStr("zzz"))

\* research results whose evidence lists seven historical campaigns
CampaignIds == <<"camp-1", "camp-2", "camp-3", "camp-4", "camp-5", "camp-6", "camp-7">>
HistoricalCampaign(i) == D2("id", JStr(CampaignIds[i]), "name", JStr(CampaignIds[i]))
EvidenceOf(campaigns) == D1("evidence", D1("historical_campaigns", JList(campaigns)))
SevenCampaigns == EvidenceOf([i \in 1..7 |-> HistoricalCampaign(i)])
SevenCampaignsReversed == EvidenceOf([i \in 1..7 |-> HistoricalCampaign(8 - i)])

\* results that carry chartable data: a list of numbers under nested dicts,
\* the same list inside an element of a list, and a list of {x, y} points
Numbers == JList(<<JInt(1), JInt(2), JInt(3), JInt(4)>>)
NumbersInDicts == D1("analysis", D1("trend", D1("weekly", Numbers)))
NumbersInListElement == D1("series", JList(<<D2("label", JStr("weekly"), "values", Numbers)>>))
Points == JList(<<D2("x", JStr("Jan"), "y", JInt(1)), D2("x", JStr("Feb"), "y", JInt(2))>>)
PointsInDict == D1("analysis", D1("monthly", Points))

\* results that carry an explicit chart payload next to chartable data
BarChart == D2("type", JStr("bar"), "title", JStr("Revenue"))
ChartBesideNumbers == D2("trend", Numbers, "chart", BarChart)
ChartDataBeforeNumbers == D2("details", D1("chartData", BarChart), "trend", Numbers)
ChartBelowNumbers == D2("trend", Numbers, "details", D1("chart", BarChart))

\* results with recommendations in more than one place
CompletedCampaign == D3("id", JStr("camp-1"), "name", JStr("Spring Sale 2023"), "status", JStr("completed"))
EmptyCampaignsBeforeEvidence ==
    D2("recommended_campaigns", JList(<<>>),
       "evidence", D1("historical_campaigns", JList(<<CompletedCampaign>>)))
SegmentsBeforeEvidence ==
    D2("evidence", D1("historical_campaigns", JList(<<CompletedCampaign>>)),
       "recommended_segments", JList(<<SegmentRecord("seg-2", "New Visitors")>>))

\* a result that carries two components of one type in a uiComponents field
StaleDuplicates ==
    D1("uiComponents", JList(<<D2("type", JStr("chart"), "data", EmptyDict),
                               D2("type", JStr("chart"), "data", EmptyDict)>>))

\* BaseAgent._parse_response for the content '["research", "campaign"]'
ListAnswer == JList(<<JStr("research"), JStr("campaign")>>)

Classified(intent) ==
    D3("intent", intent, "confidence", JFloat(9), "reasoning", JStr("stated by the user"))

ClassificationResults ==
    {Classified(JStr(i)) : i \in ValidIntents}
    \cup {Classified(JStr("chitchat")), Classified(JNull), RawContent,
          ErrorEnvelope("classification"), ListAnswer}

PlanningResults ==
    { RawContent, ErrorEnvelope("planning"), D1("plan", JList(<<>>)),
      PlanOf(<<PlanStep(1, "research", "Analyze", "prompt", Prompt),
               PlanStep(2, "campaign", "Generate", "prompt", Prompt)>>),
      PlanOf(<<PlanStep(1, "audience", "Generate audience", "prompt", Prompt)>>),
      PlanOf(<<PlanStep(1, "search", "Search", "query", Prompt)>>),
      PlanOf(<<PlanStep(1, "validator", "Validate", "prompt", Prompt)>>),
      PlanOf(<<JStr("research")>>),
      D1("plan", D1("steps", JList(<<PlanStep(1, "research", "Analyze", "prompt", Prompt)>>))),
      ListAnswer,
      D2("plan", JList(<<PlanStep(1, "research", "Analyze", "prompt", Prompt)>>),
         "error", JBool(TRUE)) }

PreviousRecord == StepRecord(PlanStep(1, "research", "Earlier call", "prompt", Prompt), RawContent)

\* the context argument: None, or a dict with or without the entries
Contexts ==
    { JNull, EmptyDict,
      D1("knowledge_articles", JList(<<JStr("kb-1")>>)),
      D1("step_results", JList(<<>>)),
      FreshContext,
      D2("results", EmptyDict, "step_results", JList(<<PreviousRecord>>)),
      D2("results", D1("research", RawContent), "step_results", JList(<<PreviousRecord>>)) }

StepValue(v) == [raises |-> FALSE, message |-> "", value |-> v]
StepRaise(m) == [raises |-> TRUE, message |-> m, value |-> JNull]

\* what _execute_step can do for a step (lines 102-124)
StepOutcomes(step) ==
    LET agent_name == Get(step, "agent")
    IN IF ~IsDict(step) THEN {StepRaise("'str' object has no attribute 'get'")}
       ELSE IF agent_name = JStr("search")
       THEN {StepValue(SearchResults), StepValue(JList(<<>>))}
       ELSE IF ~(agent_name.t = "str" /\ agent_name.s \in Agents)
       THEN {StepValue(D2("error", JBool(TRUE),
                          "message", JStr("Unknown agent: " \o PyStr(agent_name))))}
       ELSE IF agent_name.s = "research"
       THEN {StepValue(ResearchResult), StepValue(ToolResult),
             StepValue(ErrorEnvelope("research")), StepValue(ListAnswer)}
       ELSE IF agent_name.s = "campaign"
       THEN {StepValue(CampaignResult), StepValue(ErrorEnvelope("campaign")),
             StepRaise("'str' object has no attribute 'get'")}
       ELSE {StepValue(SegmentResult), StepValue(RawContent), StepValue(ListAnswer)}

\* no step has been executed yet
NoStep == [raises |-> FALSE, message |-> "", value |-> JNull]

OrchIdle ==
    [callerContext |-> JNull, context |-> JNull, declared |-> JNull,
     classification |-> JNull, planned |-> JNull, plan |-> JNull, stepNo |-> 0,
     direct |-> FALSE, raised |-> "", envelope |-> JNull, execution |-> JNull,
     stages |-> <<>>, raisedIn |-> "", crashed |-> <<>>, lastRan |-> NoStep,
     log |-> <<>>]

NoCall ==
    [intent |-> "", classification |-> JNull, final_result |-> JNull,
     execution_result |-> JNull, aliased |-> FALSE]

NoFormatOut ==
    [raises |-> FALSE, ui_components |-> <<>>, primary_component |-> "",
     response |-> JNull]

(***************************************************************************)
(* AgentOrchestrator.orchestrate, stage by stage                           *)
(***************************************************************************)
\* lines 56-66: context defaults to {}, the intent is classified, an error
\* flag in the classification ends the call
Classify ==
    /\ opc = "classify"
    /\ \E agent_result \in ClassificationResults :
         IF ~IsDict(agent_result)
         THEN /\ orch' = [orch EXCEPT
                            !.context = IF @ = JNull THEN EmptyDict ELSE @,
                            !.declared = agent_result,
                            !.stages = Append(@, "classify"),
                            !.raisedIn = "classify",
                            !.envelope = OrchestrationError(NoGet(agent_result))]
              /\ opc' = "done"
         ELSE LET classification == _classify_intent(agent_result)
                  failed == Truthy(Get(classification, "error"))
              IN /\ orch' = [orch EXCEPT
                               !.context = IF @ = JNull THEN EmptyDict ELSE @,
                               !.declared = agent_result,
                               !.stages = Append(@, "classify"),
                               !.classification = classification,
                               !.envelope = IF failed THEN classification ELSE @]
                 /\ opc' = NextStage("classify", failed)
    /\ UNCHANGED <<fpc, fcall, fout, storeVars, agentVars>>

\* lines 69-74
CreatePlan ==
    /\ opc = "plan"
    /\ \E agent_result \in PlanningResults :
         IF ~IsDict(agent_result)
         THEN /\ orch' = [orch EXCEPT
                            !.planned = agent_result,
                            !.stages = Append(@, "plan"),
                            !.raisedIn = "plan",
                            !.envelope = OrchestrationError(NoGet(agent_result))]
              /\ opc' = "done"
         ELSE LET plan == _create_plan(agent_result, orch.classification, Prompt)
                  failed == Truthy(Get(plan, "error"))
              IN /\ orch' = [orch EXCEPT
                               !.planned = agent_result,
                               !.stages = Append(@, "plan"),
                               !.plan = plan,
                               !.envelope = IF failed THEN plan ELSE @]
                 /\ opc' = NextStage("plan", failed)
    /\ UNCHANGED <<fpc, fcall, fout, storeVars, agentVars>>

\* how an exception leaves execute: orchestrate turns it into its error
\* envelope, a direct caller sees it
ExecuteRaise(o, message) ==
    /\ orch' = [o EXCEPT
                  !.raised = message,
                  !.raisedIn = "execute",
                  !.envelope = IF o.direct THEN @ ELSE OrchestrationError(message)]
    /\ opc' = "done"
    /\ UNCHANGED <<fpc, fcall, fout>>

\* PlanExecutor.execute lines 49-53
ExecuteBegin ==
    /\ opc = "execute_begin"
    /\ orch' = [orch EXCEPT !.context = IF @ = JNull THEN FreshContext ELSE @,
                             !.stages = Append(@, "execute")]
    /\ opc' = "execute"
    /\ UNCHANGED <<fpc, fcall, fout, storeVars, agentVars>>

\* PlanExecutor.execute lines 55-82: the next step of the plan
ExecuteStep ==
    /\ opc = "execute"
    /\ orch.stepNo < Len(PlanSteps(orch.plan))
    /\ LET step == PlanSteps(orch.plan)[orch.stepNo + 1]
       IN \E ran \in StepOutcomes(step) :
            LET effect == StepEffect(orch.context, step, ran)
                entered == [orch EXCEPT
                              !.lastRan = ran,
                              !.log = Append(@, [agent |-> AgentKey(step), ran |-> ran,
                                                 aux |-> AuxiliaryInput(orch.context, step)]),
                              !.crashed = IF IsDict(step) /\ ran.raises
                                          THEN Append(@, orch.stepNo + 1) ELSE @]
            IN IF effect.raises
               THEN ExecuteRaise(entered, effect.message)
               ELSE /\ orch' = [entered EXCEPT !.context = effect.context,
                                               !.stepNo = @ + 1]
                    /\ UNCHANGED <<opc, fpc, fcall, fout>>
    /\ UNCHANGED <<storeVars, agentVars>>

\* PlanExecutor.execute lines 84-94 and orchestrate lines 78-89: the
\* execution result is built and handed to _format_response
ExecuteFinish ==
    /\ opc = "execute"
    /\ orch.stepNo = Len(PlanSteps(orch.plan))
    /\ LET ret == ExecuteReturn(orch.context)
       IN IF ret.raises
          THEN ExecuteRaise(orch, ret.message)
          ELSE /\ orch' = [orch EXCEPT
                               !.execution = ret.value,
                               !.stages = IF orch.direct THEN @ ELSE Append(@, "format")]
               /\ IF orch.direct
                  THEN /\ opc' = "done"
                       /\ UNCHANGED <<fpc, fcall, fout>>
                  ELSE /\ opc' = "format"
                       /\ fpc' = "call"
                       /\ fcall' = [intent |-> Get(orch.classification, "intent").s,
                                    classification |-> orch.classification,
                                    final_result |-> GetOr(ret.value, "final_result", EmptyDict),
                                    execution_result |-> ret.value,
                                    aliased |-> Has(ret.value, "final_result")]
                       /\ UNCHANGED fout
    /\ UNCHANGED <<storeVars, agentVars>>

\* AgentOrchestrator._format_response, from the call to its return or its
\* exception.  Each local of the method is bound once, in the order in
\* which the code assigns it.
FormatResponse ==
    /\ fpc = "call"
    /\ IF FormatRaises(fcall.final_result)
       THEN /\ fout' = [raises |-> TRUE, ui_components |-> <<>>,
                        primary_component |-> "", response |-> JNull]
            /\ fpc' = "raised"
       ELSE \E rationale \in {RationaleOf(fcall.final_result, fcall.execution_result)} :
            \E config619 \in {ConfigOf(fcall.final_result, rationale)} :
            \E final_result \in {AliasedFinal(fcall.final_result, config619)} :
            \E steps \in {IF fcall.aliased
                          THEN WithLastResult(StepResultsOf(fcall.execution_result),
                                              final_result)
                          ELSE StepResultsOf(fcall.execution_result)} :
            \E chart_data \in {ChartData(final_result, steps)} :
            \E recommendations_data \in {RecommendationsData(fcall.intent, final_result, steps)} :
            \E ui_components \in {UiComponents(fcall.intent, config619, final_result,
                                               chart_data, recommendations_data)} :
            \E primary_component \in {PrimaryComponent(fcall.intent, ui_components)} :
            \E campaign_config \in {MergedConfig(fcall.intent, config619, final_result,
                                                 ui_components, primary_component,
                                                 chart_data, recommendations_data)} :
            \E final_after \in {IF Truthy(config619)
                                THEN AliasedFinal(final_result, campaign_config)
                                ELSE final_result} :
              /\ fout' = [raises |-> FALSE,
                          ui_components |-> ui_components,
                          primary_component |-> primary_component,
                          response |->
                              Response(fcall.intent, fcall.classification, campaign_config,
                                       final_after,
                                       ExperiencePanelType(fcall.intent, primary_component),
                                       ReasoningSteps(fcall.execution_result, fcall.aliased,
                                                      final_after),
                                       fcall.execution_result, rationale)]
              /\ fpc' = "returned"
    /\ UNCHANGED <<opc, orch, fcall, storeVars, agentVars>>

\* orchestrate lines 91-99
Return ==
    /\ opc = "format"
    /\ fpc \in {"returned", "raised"}
    /\ orch' = [orch EXCEPT
                  !.raisedIn = IF fpc = "raised" THEN "format" ELSE @,
                  !.envelope = IF fpc = "raised"
                               THEN OrchestrationError("argument of type 'NoneType' is not iterable")
                               ELSE fout.response]
    /\ opc' = "done"
    /\ UNCHANGED <<fpc, fcall, fout, storeVars, agentVars>>

(***************************************************************************)
(* utils/response_parser.py and BaseAgent.process.  The text the model     *)
(* answers with is a sequence of tokens; the text itself is their          *)
(* spellings written one after the other.  k is the kind of a token: a     *)
(* punctuation mark, "str" (a JSON string, s its value), "num" (an         *)
(* integer, n its value), "true", "false", "null", "fence" (a markdown     *)
(* code fence), "word" (prose) or "space".                                 *)
(***************************************************************************)
Tok(k, text, s, n) == [k |-> k, text |-> text, s |-> s, n |-> n]

Mark(k) == Tok(k, k, "", 0)
TStr(s) == Tok("str", "\"" \o s \o "\"", s, 0)
TNum(n) == Tok("num", ToString(n), "", n)
TWord(s) == Tok("word", s, "", 0)
\* a fence is three backquotes; a TLA+ string cannot hold a backquote, so the
\* spelling is written with tildes
Fence == Tok("fence", "~~~", "", 0)
FenceJson == Tok("fence", "~~~json", "", 0)
Space == Tok("space", " ", "", 0)

RECURSIVE Text(_)
Text(toks) == IF toks = <<>> THEN "" ELSE Head(toks).text \o Text(Tail(toks))

SetMin(S) == CHOOSE i \in S : \A j \in S : i <= j
SetMax(S) == CHOOSE i \in S : \A j \in S : i >= j

\* content.strip()
Strip(toks) ==
    LET inked == {i \in 1..Len(toks) : toks[i].k # "space"}
    IN IF inked = {} THEN <<>> ELSE SubSeq(toks, SetMin(inked), SetMax(inked))

\* the first re.search of parse_json_response (fence, optional "json",
\* a group from a brace to a brace, non-greedy, fence): the
\* leftmost fence followed by a brace, up to the nearest closing brace that
\* is followed by a fence
FenceGroup(toks) ==
    LET closes(i) == {j \in (i + 2)..(Len(toks) - 1) :
                         toks[j].k = "}" /\ toks[j + 1].k = "fence"}
        starts == {i \in 1..(Len(toks) - 1) :
                      toks[i].k = "fence" /\ toks[i + 1].k = "{" /\ closes(i) # {}}
    IN IF starts = {} THEN toks
       ELSE SubSeq(toks, SetMin(starts) + 1, SetMin(closes(SetMin(starts))))

\* the second re.search (greedy): first opening to last closing brace
BraceSpan(toks) ==
    LET opens == {i \in 1..Len(toks) : toks[i].k = "{"}
        closes == {i \in 1..Len(toks) : toks[i].k = "}"}
    IN IF opens # {} /\ closes # {} /\ SetMin(opens) < SetMax(closes)
       THEN SubSeq(toks, SetMin(opens), SetMax(closes))
       ELSE toks

ParseFail == [ok |-> FALSE, value |-> JNull, next |-> 0]
Parsed(v, next) == [ok |-> TRUE, value |-> v, next |-> next]
KindAt(toks, i) == IF i <= Len(toks) THEN toks[i].k ELSE "end"

RECURSIVE ParseValue(_, _)
RECURSIVE ParseMembers(_, _, _)
RECURSIVE ParseElements(_, _, _)

\* the members of an object after its opening brace or a comma
ParseMembers(toks, i, acc) ==
    IF KindAt(toks, i) = "str" /\ KindAt(toks, i + 1) = ":"
    THEN LET r == ParseValue(toks, i + 2)
         IN IF ~r.ok THEN ParseFail
            ELSE IF KindAt(toks, r.next) = ","
            THEN ParseMembers(toks, r.next + 1, Put(acc, toks[i].s, r.value))
            ELSE IF KindAt(toks, r.next) = "}"
            THEN Parsed(Put(acc, toks[i].s, r.value), r.next + 1)
            ELSE ParseFail
    ELSE ParseFail

\* the elements of an array after its opening bracket or a comma
ParseElements(toks, i, acc) ==
    LET r == ParseValue(toks, i)
    IN IF ~r.ok THEN ParseFail
       ELSE IF KindAt(toks, r.next) = ","
       THEN ParseElements(toks, r.next + 1, Append(acc, r.value))
       ELSE IF KindAt(toks, r.next) = "]"
       THEN Parsed(JList(Append(acc, r.value)), r.next + 1)
       ELSE ParseFail

\* one JSON value starting at token i
ParseValue(toks, i) ==
    CASE KindAt(toks, i) = "{" ->
           IF KindAt(toks, i + 1) = "}" THEN Parsed(EmptyDict, i + 2)
           ELSE ParseMembers(toks, i + 1, EmptyDict)
      [] KindAt(toks, i) = "[" ->
           IF KindAt(toks, i + 1) = "]" THEN Parsed(JList(<<>>), i + 2)
           ELSE ParseElements(toks, i + 1, <<>>)
      [] KindAt(toks, i) = "str" -> Parsed(JStr(toks[i].s), i + 1)
      [] KindAt(toks, i) = "num" -> Parsed(JInt(toks[i].n), i + 1)
      [] KindAt(toks, i) = "true" -> Parsed(JBool(TRUE), i + 1)
      [] KindAt(toks, i) = "false" -> Parsed(JBool(FALSE), i + 1)
      [] KindAt(toks, i) = "null" -> Parsed(JNull, i + 1)
      [] OTHER -> ParseFail

\* json.loads: the whole text is one JSON value
json_loads(toks) ==
    LET r == ParseValue(toks, 1)
    IN IF r.ok /\ r.next = Len(toks) + 1 THEN r ELSE ParseFail

\* the content of a response: None, or a text
NoContent == [none |-> TRUE, toks |-> <<>>]
Content(toks) == [none |-> FALSE, toks |-> toks]

\* the text parse_json_response hands to json.loads (lines 25-35)
Extracted(content) == BraceSpan(FenceGroup(Strip(content.toks)))

\* parse_json_response; the text of the JSONDecodeError is not modelled
parse_json_response(content) ==
    IF content.none \/ content.toks = <<>> THEN EmptyDict
    ELSE IF json_loads(Extracted(content)).ok
    THEN json_loads(Extracted(content)).value
    ELSE D2("raw_content", JStr(Text(Extracted(content))),
            "parse_error", JStr("JSONDecodeError"))

\* "parse_error" in parsed, for a dict, a list or a text (for a text the
\* test is for the whole text)
HasParseError(parsed) ==
    CASE IsDict(parsed) -> Has(parsed, "parse_error")
      [] IsList(parsed) -> \E i \in 1..Len(parsed.items) : parsed.items[i] = JStr("parse_error")
      [] OTHER -> parsed = JStr("parse_error")

\* the name of the Python type of a number
TypeName(v) == IF v.t = "bool" THEN "bool" ELSE IF v.t = "int" THEN "int" ELSE "float"

\* BaseAgent._parse_response, lines 211-223: `in` raises TypeError on a
\* number that is not zero
_parse_response(content) ==
    LET parsed == parse_json_response(content)
        raw == D2("content", IF content.none THEN JNull ELSE JStr(Text(content.toks)),
                  "raw", JBool(TRUE))
    IN IF ~Truthy(parsed) THEN [raises |-> FALSE, error_type |-> "", message |-> "", value |-> raw]
       ELSE IF IsNumber(parsed) \/ parsed.t = "bool"
       THEN [raises |-> TRUE, error_type |-> "TypeError",
             message |-> "argument of type '" \o TypeName(parsed) \o "' is not iterable",
             value |-> JNull]
       ELSE IF HasParseError(parsed)
       THEN [raises |-> FALSE, error_type |-> "", message |-> "", value |-> raw]
       ELSE [raises |-> FALSE, error_type |-> "", message |-> "", value |-> parsed]

\* BaseAgent._handle_error, lines 232-237
_handle_error(error_type, message, agent_name) ==
    D4("error", JBool(TRUE), "error_type", JStr(error_type),
       "message", JStr(message), "agent", JStr(agent_name))

\* what the completion gateway does at one call: it raises, or it answers
\* with a content and a number of tool calls
GatewayRaise(error_type, message) ==
    [raises |-> TRUE, error_type |-> error_type, message |-> message,
     tool_calls |-> 0, content |-> NoContent]
GatewayAnswer(content, tool_calls) ==
    [raises |-> FALSE, error_type |-> "", message |-> "",
     tool_calls |-> tool_calls, content |-> content]

\* lines 64-69 and 198-203: tool calls are resolved when the agent uses
\* tools, otherwise the response is parsed
AfterResponse(response, use_tools) ==
    IF response.tool_calls > 0 /\ use_tools THEN "tools" ELSE "parse"

NoAgentCall ==
    [agent_name |-> "", use_tools |-> FALSE, knowledge_articles |-> "none", turns |-> <<>>]

NoAgentOut ==
    [calls |-> 0, response |-> GatewayAnswer(NoContent, 0), gatewayRaised |-> FALSE,
     result |-> JNull, messages |-> <<>>, executed |-> <<>>, sent |-> <<>>]

\* one tool-call request of a response: the index-th request of the
\* response to the call-th gateway call
ToolCall(call, index) == [call |-> call, index |-> index]
NoToolCall == ToolCall(0, 0)

\* extract_tool_calls, response_parser.py lines 54-58
extract_tool_calls(response, call) ==
    [i \in 1..response.tool_calls |-> ToolCall(call, i)]

\* one entry of the message list
ChatMessage(role, content, tool_calls, tool_call_id) ==
    [role |-> role, content |-> content, tool_calls |-> tool_calls,
     tool_call_id |-> tool_call_id]

JsonOnlyReminder == "Return only valid JSON, no conversational text."

\* _build_messages, lines 80-106 (no conversation history)
_build_messages(knowledge_articles) ==
    <<ChatMessage("system", "system_prompt", <<>>, NoToolCall)>>
    \o (IF knowledge_articles = "dicts"
        THEN <<ChatMessage("system", "Relevant Knowledge Articles", <<>>, NoToolCall)>>
        ELSE <<>>)
    \o <<ChatMessage("user", "prompt", <<>>, NoToolCall)>>

\* _call_llm lines 129-140 with chat_completion lines 109-117: the
\* arguments that reach the completion endpoint; tool_choice "" is None,
\* the tools argument is None at both call sites and falls back to the
\* agent's tools; the endpoint gets tools and tool_choice only when the tool
\* list is not empty
_call_llm(messages, use_tools, tool_choice) ==
    LET choice == IF tool_choice = "" THEN (IF use_tools THEN "auto" ELSE "none")
                  ELSE tool_choice
    IN [messages |-> messages, tools |-> use_tools,
        tool_choice |-> IF use_tools THEN choice ELSE "unset"]

\* _handle_tool_calls lines 165-192: the messages after one round
ToolRoundFirstResultOnly(messages, tool_calls) ==
    messages
    \o <<ChatMessage("assistant", "", tool_calls, NoToolCall)>>
    \o [i \in 1..1 |-> ChatMessage("tool", "result", <<>>, tool_calls[i])]
    \o <<ChatMessage("user", JsonOnlyReminder, <<>>, NoToolCall)>>
ToolRound(messages, tool_calls) ==
    messages
    \o <<ChatMessage("assistant", "", tool_calls, NoToolCall)>>
    \o [i \in 1..Len(tool_calls) |-> ChatMessage("tool", "result", <<>>, tool_calls[i])]
    \o <<ChatMessage("user", JsonOnlyReminder, <<>>, NoToolCall)>>

\* the gateway is called with the arguments kwargs inside the try of
\* process: an exception of the gateway goes to _handle_error (lines 71-73)
GatewayCall(out, kwargs) ==
    LET turn == acall.turns[out.calls + 1]
        o == [out EXCEPT !.calls = @ + 1, !.sent = Append(@, kwargs),
                         !.messages = kwargs.messages]
    IN IF turn.raises
       THEN /\ aout' = [o EXCEPT
                          !.gatewayRaised = TRUE,
                          !.result = _handle_error(turn.error_type, turn.message,
                                                   acall.agent_name)]
            /\ apc' = "returned"
       ELSE /\ aout' = [o EXCEPT !.response = turn]
            /\ apc' = AfterResponse(turn, acall.use_tools)

\* process lines 56-66: the messages are built (article.get raises on a
\* knowledge article that is not a dict) and the gateway is called
AgentCall ==
    /\ apc = "call"
    /\ IF acall.knowledge_articles = "malformed"
       THEN /\ aout' = [aout EXCEPT
                          !.result = _handle_error("AttributeError",
                                                   "'str' object has no attribute 'get'",
                                                   acall.agent_name)]
            /\ apc' = "returned"
       ELSE GatewayCall(aout, _call_llm(_build_messages(acall.knowledge_articles),
                                        acall.use_tools, ""))
    /\ UNCHANGED <<acall, storeVars, pipeVars>>

\* _handle_tool_calls lines 150-203: the tools run in the order of the
\* requests (execute_tool catches what a tool raises), the round is added
\* to the messages and the gateway is called again with tool_choice "none"
AgentToolCalls ==
    /\ apc = "tools"
    /\ \E tool_calls \in {extract_tool_calls(aout.response, aout.calls)} :
          GatewayCall([aout EXCEPT !.executed = @ \o tool_calls],
                      _call_llm(ToolRound(aout.messages, tool_calls),
                                acall.use_tools, "none"))
    /\ UNCHANGED <<acall, storeVars, pipeVars>>

\* process line 69 / _handle_tool_calls line 203, and the except clause
AgentParse ==
    /\ apc = "parse"
    /\ LET ret == _parse_response(aout.response.content)
       IN aout' = [aout EXCEPT
                     !.result = IF ret.raises
                                THEN _handle_error(ret.error_type, ret.message,
                                                   acall.agent_name)
                                ELSE ret.value]
    /\ apc' = "returned"
    /\ UNCHANGED <<acall, storeVars, pipeVars>>

\* the agents and whether they use tools
AgentNames ==
    {"classification", "planning", "research", "campaign", "audience", "journey",
     "validation"}
UsesTools(agent_name) == agent_name = "research"

\* answers of the model
ObjectTokens ==
    <<Mark("{"), TStr("intent"), Mark(":"), TStr("search"), Mark(","),
      TStr("confidence"), Mark(":"), TNum(1), Mark("}")>>
SmallObject(key, n) == <<Mark("{"), TStr(key), Mark(":"), TNum(n), Mark("}")>>

Contents ==
    { NoContent, Content(<<>>), Content(<<Space>>),
      Content(ObjectTokens),
      Content(<<Space>> \o ObjectTokens \o <<Space>>),
      Content(<<FenceJson>> \o ObjectTokens \o <<Fence>>),
      Content(<<TWord("Sure"), Fence>> \o ObjectTokens \o <<Fence, TWord("done")>>),
      Content(<<TWord("Sure")>> \o ObjectTokens \o <<TWord("done")>>),
      Content(<<Fence>> \o SmallObject("a", 1) \o <<Fence, Fence>>
                \o SmallObject("b", 2) \o <<Fence>>),
      Content(SmallObject("a", 1) \o SmallObject("b", 2)),
      Content(<<Mark("[")>> \o SmallObject("a", 1) \o <<Mark(",")>>
                \o SmallObject("b", 2) \o <<Mark("]")>>),
      Content(<<Mark("[")>> \o SmallObject("a", 1) \o <<Mark("]")>>),
      Content(<<Mark("{"), TStr("plan"), Mark(":"), Mark("["), TStr("research"),
                Mark("]"), Mark("}")>>),
      Content(<<Mark("{"), TStr("a"), Mark(":"), TNum(1)>>),
      Content(<<Mark("{"), TStr("parse_error"), Mark(":"), TStr("x"), Mark("}")>>),
      Content(<<Mark("{"), Mark("}")>>),
      Content(<<Mark("["), Mark("]")>>),
      Content(<<Mark("["), TNum(1), Mark(","), TNum(2), Mark("]")>>),
      Content(<<Mark("["), TStr("research"), Mark(","), TStr("campaign"), Mark("]")>>),
      Content(<<Mark("["), TStr("parse_error"), Mark("]")>>),
      Content(<<TNum(5)>>), Content(<<TNum(0)>>),
      Content(<<Mark("true")>>), Content(<<Mark("false")>>), Content(<<Mark("null")>>),
      Content(<<TStr("hello")>>),
      Content(<<TWord("I am not sure")>>) }

\* the gateway's behaviours over the calls of one process call
ToolTurn == GatewayAnswer(NoContent, 1)
ToolTurns == {GatewayAnswer(NoContent, n) : n \in 1..MaxToolCalls}

LastTurns ==
    {GatewayRaise("APIError", "LLM unavailable"),
     GatewayRaise("APITimeoutError", "Request timed out.")}
    \cup {GatewayAnswer(c, 0) : c \in Contents}

AfterToolTurns ==
    {GatewayRaise("APIError", "LLM unavailable"), GatewayAnswer(Content(ObjectTokens), 0),
     GatewayAnswer(Content(<<TWord("I am not sure")>>), 0),
     GatewayAnswer(Content(<<Mark("["), TNum(1), Mark(","), TNum(2), Mark("]")>>), 0)}

TurnSequences ==
    {<<turn>> : turn \in LastTurns}
    \cup {<<first, turn>> : first \in ToolTurns, turn \in AfterToolTurns}
    \cup {<<first, second, turn>> :
              first \in ToolTurns, second \in ToolTurns, turn \in AfterToolTurns}

AgentCalls ==
    {[agent_name |-> name, use_tools |-> UsesTools(name),
      knowledge_articles |-> k, turns |-> turns] :
        name \in AgentNames, k \in {"none", "dicts", "malformed"}, turns \in TurnSequences}

(***************************************************************************)
(* Specifications                                                          *)
(***************************************************************************)
PipelineIdle ==
    /\ opc = "idle"
    /\ orch = OrchIdle
    /\ fpc = "idle"
    /\ fcall = NoCall
    /\ fout = NoFormatOut

AgentIdle ==
    /\ apc = "idle"
    /\ acall = NoAgentCall
    /\ aout = NoAgentOut

StoreIdle == InitStore /\ file.kind = "missing"

\* the session store under concurrent callers
Init == InitStore /\ PipelineIdle /\ AgentIdle

Next == NextStore

Spec == Init /\ [][Next]_vars

\* one orchestrate call, or one call of PlanExecutor.execute on its own
DirectPlans ==
    { PlanOf(<<>>),
      PlanOf(<<PlanStep(1, "research", "Analyze", "prompt", Prompt)>>),
      PlanOf(<<PlanStep(1, "research", "Analyze", "prompt", Prompt),
               PlanStep(2, "validator", "Validate", "prompt", Prompt),
               PlanStep(3, "audience", "Generate audience", "prompt", Prompt)>>),
      PlanOf(<<PlanStep(1, "campaign", "Generate", "prompt", Prompt),
               PlanStep(2, "research", "Analyze", "prompt", Prompt),
               PlanStep(3, "audience", "Generate audience", "prompt", Prompt)>>),
      PlanOf(<<PlanStep(1, "research", "Analyze", "prompt", Prompt),
               PlanStep(2, "campaign", "Generate", "prompt", Prompt),
               PlanStep(3, "audience", "Generate audience", "prompt", Prompt)>>),
      PlanOf(<<PlanStep(1, "validator", "Validate", "prompt", Prompt),
               PlanStep(2, "campaign", "Generate", "prompt", Prompt)>>),
      PlanOf(<<PlanStep(1, "validator", "Validate", "prompt", Prompt),
               PlanStep(2, "search", "Search", "query", Prompt)>>),
      PlanOf(<<PlanStep(2, "research", "Analyze", "prompt", Prompt),
               D2("agent", JStr("audience"), "input", D1("prompt", JStr(Prompt)))>>) }

InitOrchestrate ==
    /\ StoreIdle
    /\ AgentIdle
    /\ fpc = "idle"
    /\ fcall = NoCall
    /\ fout = NoFormatOut
    /\ \/ /\ opc = "classify"
          /\ orch \in {[OrchIdle EXCEPT !.callerContext = c, !.context = c] : c \in Contexts}
       \/ /\ opc = "execute_begin"
          /\ orch \in {[OrchIdle EXCEPT !.callerContext = c, !.context = c,
                                        !.plan = p, !.direct = TRUE] :
                          c \in Contexts, p \in DirectPlans}

NextOrchestrate ==
    \/ Classify
    \/ CreatePlan
    \/ ExecuteBegin
    \/ ExecuteStep
    \/ ExecuteFinish
    \/ FormatResponse
    \/ Return

SpecOrchestrate == InitOrchestrate /\ [][NextOrchestrate]_vars

\* _format_response called on its own
FormatIntents == ValidIntents \cup {"knowledge_generation", "chitchat"}

FinalResults ==
    { EmptyDict, CampaignResult, D1("campaign", JStr("Spring Sale")), SegmentResult,
      D1("criteria", JStr("orders > 3")), ResearchResult,
      D1("recommended_campaigns", JList(<<>>)), SearchResults, JList(<<>>),
      StaleComponents, StalePrimary, JNull, ToolResult, ErrorEnvelope("research"),
      RawContent, SevenCampaigns, SevenCampaignsReversed, NumbersInDicts,
      NumbersInListElement, PointsInDict, ChartBesideNumbers, ChartDataBeforeNumbers,
      ChartBelowNumbers, EmptyCampaignsBeforeEvidence, SegmentsBeforeEvidence,
      StaleDuplicates }

Executed(final_result, step_results) ==
    D4("success", JBool(TRUE), "final_result", final_result,
       "all_results", EmptyDict, "step_results", JList(step_results))

ResearchRecord(result) ==
    StepRecord(PlanStep(1, "research", "Analyze", "prompt", Prompt), result)

\* the execution results a final result can come with, each with the
\* aliased flag of the call
ExecutionsOf(final_result) ==
    { <<D2("success", JBool(FALSE), "error", JStr("No steps executed")), FALSE>>,
      <<Executed(final_result, <<ResearchRecord(ResearchResult)>>), FALSE>>,
      <<Executed(final_result, <<ResearchRecord(ToolResult)>>), FALSE>>,
      <<Executed(final_result, <<ResearchRecord(SevenCampaigns)>>), FALSE>>,
      <<Executed(final_result,
                 <<ErrorRecord(PlanStep(1, "search", "Search", "query", Prompt),
                               "'list' object has no attribute 'get'")>>), FALSE>>,
      <<Executed(final_result,
                 <<ResearchRecord(ResearchResult),
                   StepRecord(PlanStep(2, "campaign", "Generate", "prompt", Prompt),
                              final_result)>>), TRUE>>,
      <<Executed(final_result,
                 <<StepRecord(PlanStep(1, "audience", "Generate", "prompt", Prompt),
                              final_result)>>), TRUE>> }

FormatCalls ==
    UNION { { [intent |-> i, classification |-> Classified(JStr(i)), final_result |-> f,
               execution_result |-> e[1], aliased |-> e[2]] :
                i \in FormatIntents, e \in ExecutionsOf(f) } : f \in FinalResults }

InitFormat ==
    /\ StoreIdle
    /\ AgentIdle
    /\ opc = "idle"
    /\ orch = OrchIdle
    /\ fpc = "call"
    /\ fcall \in FormatCalls
    /\ fout = NoFormatOut

NextFormat == FormatResponse

SpecFormat == InitFormat /\ [][NextFormat]_vars

\* requests to orchestrate_agent (with a session id) and to add_message, for
\* a session that is stored (0) and for one that is not (9)
TurnRequests ==
    {Request("orchestrate_agent", sid, "user", prompt, raises) :
        sid \in {0, 9}, prompt \in {"P", "Q"}, raises \in BOOLEAN}

MessageRequests == {Request("add_message", sid, "user", "P", FALSE) : sid \in {0, 9}}

\* session 0 with the messages given; the ids of stored messages are not
\* ids that uuid4 draws later
StoredSession(msgs) == [Session(0) EXCEPT !.messages = msgs]

InitialTurnFiles ==
    { FileOf("missing", <<>>),
      FileOf("list", <<StoredSession(<<>>)>>),
      FileOf("list", <<StoredSession(<<Message(-1, "user", "P")>>), Session(-3)>>),
      FileOf("list", <<Session(-3),
                       StoredSession(<<Message(-2, "user", "Q"),
                                       Message(-1, "assistant", Proposal)>>)>>) }

InitTurns ==
    /\ file \in InitialTurnFiles
    /\ CallersIdle
    /\ PipelineIdle
    /\ AgentIdle

NextTurns ==
    \/ \E p \in Procs, r \in TurnRequests \cup MessageRequests : BeginRequest(p, r)
    \/ \E p \in Procs : Open(p)
    \/ \E p \in Procs : TryLock(p)
    \/ \E p \in Procs : Wake(p)
    \/ \E p \in Procs : BlockingLock(p)
    \/ Tick
    \/ \E p \in Procs : ReadFile(p)
    \/ \E p \in Procs : BlockBody(p)
    \/ \E p \in Procs : Truncate(p)
    \/ \E p \in Procs : Dump(p)
    \/ \E p \in Procs : Unlock(p)
    \/ \E p \in Procs : Close(p)

\* the endpoints of main.py that write to the session store
SpecTurns == InitTurns /\ [][NextTurns]_vars

\* one call of BaseAgent.process
InitAgent ==
    /\ StoreIdle
    /\ PipelineIdle
    /\ apc = "call"
    /\ acall \in AgentCalls
    /\ aout = NoAgentOut

NextAgent ==
    \/ AgentCall
    \/ AgentToolCalls
    \/ AgentParse

SpecAgent == InitAgent /\ [][NextAgent]_vars

(***************************************************************************)
(* Session store properties                                                *)
(***************************************************************************)
Corrupt(f) == f.kind \in {"empty", "garbage", "nonlist"}

\* the operation of p is over and its caller has the outcome
Finished(p, o) == pc[p] = "done" /\ op[p] = o

FinishedOk(p, o) == Finished(p, o) /\ outcome[p].status = "returned"

\* p has read the file under its lock
HasRead(p) == fileBefore[p].kind # "missing"

\* C2: when two callers have each completed an atomic_session_operation that
\* appends one new session, the file is a list that holds both appended
\* sessions, and all ids in it are distinct.
C2_NoLostUpdate ==
    \A p, q \in Procs :
        (p # q /\ FinishedOk(p, "create_session") /\ FinishedOk(q, "create_session"))
        => /\ file.kind = "list"
           /\ {newId[p], newId[q]} \subseteq IdsOf(file.items)
           /\ newId[p] # newId[q]
           /\ UniqueIds(file.items)

\* both creations completed and one of them found the lock taken by the other
C2_Witness ==
    \E p, q \in Procs :
        /\ p # q
        /\ FinishedOk(p, "create_session") /\ FinishedOk(q, "create_session")
        /\ retry_count[q] > 0
        /\ Len(file.items) >= 2

\* C3: when the caller's block raises, the write is skipped: at the moment
\* the lock is given back the file content is what was read, although the
\* in-memory list was mutated.
C3_FailedBlockWritesNothing ==
    \A p \in Procs :
        (pc[p] \in {"unlock", "close"} /\ raised[p] = "Exception" /\ lock[p] = "ex")
        => file = fileBefore[p]

C3_Witness ==
    \E p \in Procs :
        /\ pc[p] = "unlock" /\ raised[p] = "Exception" /\ lock[p] = "ex"
        /\ fileBefore[p].kind = "list" /\ Len(fileBefore[p].items) > 0
        /\ sessions[p] # fileBefore[p].items

\* C4 (as claimed): load_sessions on a corrupt file (not JSON, or JSON that
\* is not a list) raises a decode error, not the lock-failure FileLockError.
C4_LoadCorruptRaisesDecodeError ==
    \A p \in Procs :
        (Finished(p, "load_sessions") /\ HasRead(p)
            /\ fileBefore[p].kind \in {"garbage", "nonlist"})
        => outcome[p].status = "raised" /\ outcome[p].exc = "JSONDecodeError"

C6_LockAlwaysReleased ==
    /\ \A p \in Procs :
          pc[p] \in {"idle", "done"} => lock[p] = "none" /\ ~file_handle[p]
    /\ \A p \in Procs :
          lock[p] # "none" =>
              pc[p] \in {"yield", "block", "truncate", "dump", "unlock"}

\* one caller was left by its block's exception, the other gave up on the
\* lock, and the lock is free
C6_Witness ==
    \E p, q \in Procs :
        /\ p # q
        /\ pc[p] = "done" /\ raised[p] = "Exception"
        /\ pc[q] = "done" /\ raised[q] = "FileLockError"
        /\ \A r \in Procs : lock[r] = "none"

\* C7 (as claimed): the blocking attempt is limited to the rest of the
\* timeout, so no caller is still waiting in it once the timeout is exceeded.
C7_BlockingWaitBounded ==
    \A p \in Procs : pc[p] = "blocked" => elapsed[p] <= Timeout

(***************************************************************************)
(* Orchestration pipeline properties                                       *)
(***************************************************************************)
\* an orchestrate call (not a call of execute on its own)
Orchestrating == ~orch.direct /\ opc # "idle"

\* C1: in every orchestrate call, also one made with no context or with a
\* context lacking the entries, the plan executor runs on a context that
\* holds results and step_results, and the call never ends because one of
\* the two entries is missing.
C1_ExecutorContextHoldsResults ==
    /\ (Orchestrating /\ opc = "execute")
         => Has(orch.context, "results") /\ Has(orch.context, "step_results")
    /\ (Orchestrating /\ opc = "done")
         => orch.raised \notin {"'step_results'", "'results'"}

\* the uiComponents and primaryComponent of a returned envelope
ConfigComponents == Get(Get(fout.response, "campaignConfig"), "uiComponents")
ConfigPrimary == Get(Get(fout.response, "campaignConfig"), "primaryComponent")

\* C8: whatever the intent, the final result and the step trace, the
\* returned envelope has at least one entry in campaignConfig.uiComponents
\* and its primaryComponent is the type of one of them.
C8_ComponentsAndPrimary ==
    fpc = "returned" =>
        /\ IsList(ConfigComponents)
        /\ Len(ConfigComponents.items) >= 1
        /\ \E i \in 1..Len(ConfigComponents.items) :
               Get(ConfigComponents.items[i], "type") = ConfigPrimary

\* the order in which component types are preferred, by intent
PrecedenceOf(intent) ==
    CASE intent = "campaign_generation" ->
           <<{"campaign_form"}, {"recommendations"}, {"chart"}>>
      [] intent = "audience_generation" ->
           <<{"segment", "segment_form"}, {"recommendations"}, {"chart"}>>
      [] OTHER ->
           <<{"chart"}, {"recommendations"},
             {"campaign", "campaign_form", "segment", "segment_form"}>>

\* position of the first preferred class that has a component, 0 if none
FirstPresent(ui_components, order) ==
    LET present == {k \in 1..Len(order) : HasComponent(ui_components, order[k])}
    IN IF present = {} THEN 0 ELSE CHOOSE k \in present : \A j \in present : k <= j

PlanAgents(plan) == [i \in 1..Len(PlanSteps(plan)) |-> Get(PlanSteps(plan)[i], "agent")]

\* the override and what follows from it in planning and formatting
OverriddenAsCampaign ==
    /\ Get(orch.classification, "intent") = JStr("campaign_generation")
    /\ Get(orch.classification, "confidence") = JFloat(OverrideConfidenceTenths)
    /\ (orch.plan # JNull /\ ~Truthy(Get(orch.planned, "plan")))
         => PlanAgents(orch.plan) = <<JStr("research"), JStr("campaign")>>
    /\ fpc # "idle" => fcall.intent = "campaign_generation"
    /\ fpc = "returned"
         => /\ Get(fout.response, "intent") = JStr("campaign_generation")
            /\ ConfigPrimary = JStr("campaign_form")
            /\ Get(fout.response, "experiencePanelType") = JStr("campaign_form")

Classifying == opc = "classify"

TemplateAgents(intent) ==
    CASE intent = "campaign_generation" -> <<JStr("research"), JStr("campaign")>>
      [] intent = "audience_generation" -> <<JStr("audience")>>
      [] intent = "research" -> <<JStr("research")>>
      [] intent = "search" -> <<JStr("search")>>

\* the step numbers of a plan, in order
PlanNumbers(plan) == [i \in 1..Len(PlanSteps(plan)) |-> Get(PlanSteps(plan)[i], "step")]

\* the planning agent's output has no plan key or an empty plan
LacksPlan(result) == IsDict(result) /\ ~Truthy(Get(result, "plan"))

WellFormedStep(step) == IsDict(step) /\ Get(step, "agent").t = "str"

\* the planning agent failed, or its plan is missing, empty, not a list,
\* or has a step that is not a step record
PlanningDegenerate ==
    /\ IsDict(orch.planned)
    /\ \/ Truthy(Get(orch.planned, "error"))
       \/ LacksPlan(orch.planned)
       \/ ~IsList(Get(orch.planned, "plan"))
       \/ \E i \in 1..Len(PlanSteps(orch.planned)) :
              ~WellFormedStep(PlanSteps(orch.planned)[i])

\* what _format_response returns, as opposed to an error envelope
IsResponseEnvelope(envelope) ==
    /\ IsDict(envelope)
    /\ Has(envelope, "campaignConfig")
    /\ ~Truthy(Get(envelope, "error"))

\* a context that holds both entries the executor works on
FullContext(context) == Has(context, "results") /\ Has(context, "step_results")

\* C12: when the planning agent returns an error envelope, or an output
\* whose plan is missing, empty, not a list or holds a step that is not a
\* step record, orchestrate still returns a response envelope and not an
\* error envelope.
C12_PlanningFailureNeverAborts ==
    (Orchestrating /\ opc = "done" /\ PlanningDegenerate)
        => IsResponseEnvelope(orch.envelope)

\* PlanExecutor.execute is over: it returned or it raised
ExecuteOver == orch.execution # JNull \/ orch.raisedIn = "execute"

\* number of steps of the plan handed to execute
PlanLength == Len(PlanSteps(orch.plan))

\* positions of the steps that name an agent outside the known set
UnknownSteps ==
    {i \in 1..PlanLength :
        LET step == PlanSteps(orch.plan)[i]
        IN /\ WellFormedStep(step)
           /\ Get(step, "agent").s \notin Agents \cup {"search"}}

\* the step results execute returned
ReturnedRecords == Get(orch.execution, "step_results").items

\* C13: for a plan of N steps with a step naming an unknown agent, execute
\* records for that step success = false and 'Unknown agent: <name>', runs
\* every later step, and returns exactly N step results.
C13_UnknownAgentRecorded ==
    (ExecuteOver /\ UnknownSteps # {}) =>
        /\ orch.raised = ""
        /\ orch.stepNo = PlanLength
        /\ Len(ReturnedRecords) = PlanLength
        /\ \A i \in UnknownSteps :
              /\ Get(ReturnedRecords[i], "success") = JBool(FALSE)
              /\ Get(Get(ReturnedRecords[i], "result"), "message")
                    = JStr("Unknown agent: " \o Get(PlanSteps(orch.plan)[i], "agent").s)

\* C14: when the execution of a step raises, execute appends a step result
\* with success = false and the exception text for it, runs every
\* remaining step and does not raise, wherever the step is in the plan.
C14_CrashedStepRecorded ==
    (ExecuteOver /\ orch.crashed # <<>>) =>
        /\ orch.raised = ""
        /\ orch.stepNo = PlanLength
        /\ \A k \in 1..Len(orch.crashed) :
              \E i \in 1..Len(ReturnedRecords) :
                 /\ Get(ReturnedRecords[i], "step")
                       = GetOr(PlanSteps(orch.plan)[orch.crashed[k]], "step", JInt(0))
                 /\ Get(ReturnedRecords[i], "success") = JBool(FALSE)
                 /\ Get(ReturnedRecords[i], "error").t = "str"

\* C15: when at least one step ran, execute returns as final_result the
\* result object of the last step executed, whether it succeeded, returned
\* an error record or crashed; with zero steps it returns a failure marker
\* (success = false) without final_result.
C15_FinalResultIsLastStep ==
    ExecuteOver =>
        IF PlanLength = 0
        THEN /\ orch.raised = ""
             /\ Get(orch.execution, "success") = JBool(FALSE)
             /\ ~Has(orch.execution, "final_result")
        ELSE /\ orch.raised = ""
             /\ Has(orch.execution, "final_result")
             /\ ~orch.lastRan.raises
                   => Get(orch.execution, "final_result") = orch.lastRan.value

\* the recommendations components of a returned envelope
RecommendationComponents(envelope) ==
    LET components == Get(Get(envelope, "campaignConfig"), "uiComponents").items
    IN {i \in 1..Len(components) : Get(components[i], "type") = JStr("recommendations")}

\* C16: for a search request whose search step matches at least one
\* record, the list of records is the step's result and the final_result,
\* and orchestrate returns a response envelope whose uiComponents hold a
\* recommendations component with that list as its items.
C16_SearchListSurfaced ==
    (Orchestrating /\ opc = "done"
        /\ Get(orch.classification, "intent") = JStr("search")
        /\ PlanAgents(orch.plan) = <<JStr("search")>>
        /\ orch.lastRan.value = SearchResults) =>
        /\ IsResponseEnvelope(orch.envelope)
        /\ Get(orch.execution, "final_result") = SearchResults
        /\ Get(ReturnedRecords[Len(ReturnedRecords)], "result") = SearchResults
        /\ \E i \in RecommendationComponents(orch.envelope) :
              Get(Get(Get(Get(orch.envelope, "campaignConfig"), "uiComponents").items[i],
                      "data"), "items") = SearchResults

\* the stages of orchestrate in the order of the code
StageOrder == <<"classify", "plan", "execute", "format">>

IsPrefix(s, full) == Len(s) <= Len(full) /\ \A i \in 1..Len(s) : s[i] = full[i]

\* the result of orchestrate is an error result
ErrorProduced == IsDict(orch.envelope) /\ Truthy(Get(orch.envelope, "error"))

\* C17: within one orchestrate call the stages invoked so far are an
\* initial part of classify, plan, execute, format, so each runs at most
\* once, in that order, none again; classification has run exactly once as
\* soon as the call is past it; and once an error result exists the call is
\* over and the stage that produced it is the last one that ran.
C17_StagesInOrder ==
    Orchestrating =>
        /\ IsPrefix(orch.stages, StageOrder)
        /\ opc = "classify" <=> orch.stages = <<>>
        /\ opc = "plan" => orch.stages = <<"classify">>
        /\ opc \in {"execute_begin"} => orch.stages = <<"classify", "plan">>
        /\ opc = "execute" => orch.stages = <<"classify", "plan", "execute">>
        /\ opc = "format" => orch.stages = StageOrder
        /\ fpc # "idle" <=> orch.stages = StageOrder
        /\ ErrorProduced =>
              /\ opc = "done"
              /\ Truthy(Get(orch.classification, "error")) => orch.stages = <<"classify">>
              /\ orch.raisedIn # "" => orch.stages[Len(orch.stages)] = orch.raisedIn
              /\ orch.raisedIn # "format" => fpc = "idle"

\* a call that went through the four stages and returned the response
C17_Witness ==
    /\ Orchestrating
    /\ opc = "done"
    /\ orch.stages = StageOrder
    /\ fpc = "returned"
    /\ orch.envelope = fout.response

\* C18: orchestrate always returns a dict; when classification, planning
\* or plan execution raised, what it returns is exactly error = true,
\* error_type = 'orchestration_error' and the message of the exception,
\* and no response was formatted for the request.
C18_ExceptionsBecomeEnvelope ==
    (Orchestrating /\ opc = "done") =>
        /\ IsDict(orch.envelope)
        /\ orch.raisedIn \in {"classify", "plan", "execute"} =>
              /\ orch.envelope.keys = <<"error", "error_type", "message">>
              /\ Get(orch.envelope, "error") = JBool(TRUE)
              /\ Get(orch.envelope, "error_type") = JStr("orchestration_error")
              /\ Get(orch.envelope, "message").t = "str"
              /\ orch.raisedIn = "execute" => Get(orch.envelope, "message") = JStr(orch.raised)
              /\ fpc = "idle"
              /\ fout = NoFormatOut

\* the last step of the plan crashed and execute raised on its record
C18_Witness ==
    /\ Orchestrating
    /\ opc = "done"
    /\ orch.raisedIn = "execute"
    /\ orch.crashed # <<>>
    /\ Get(orch.envelope, "message") = JStr("'result'")

\* the error record of an agent: error, error_type, message and the agent's name
IsAgentError(result, agent_name) ==
    /\ IsDict(result)
    /\ result.keys = <<"error", "error_type", "message", "agent">>
    /\ Get(result, "error") = JBool(TRUE)
    /\ Get(result, "agent") = JStr(agent_name)

\* an answer that cannot be parsed as JSON: no text, or a text in which no
\* JSON value is found
Unparsable(content) == content.none \/ ~json_loads(Extracted(content)).ok

RawAnswer(content) ==
    D2("content", IF content.none THEN JNull ELSE JStr(Text(content.toks)), "raw", JBool(TRUE))

\* C19: a call of an agent's process that has returned has returned a
\* record; when the gateway raised, the record is {error: true, error_type,
\* message, agent: name}; when the gateway answered with something that
\* cannot be parsed as JSON, the record is {content: rawText, raw: true};
\* otherwise it is the parsed JSON value.
C19_ProcessReturnsRecord ==
    apc = "returned" =>
        /\ IsDict(aout.result)
        /\ aout.gatewayRaised => IsAgentError(aout.result, acall.agent_name)
        /\ (aout.calls > 0 /\ ~aout.gatewayRaised) =>
               IF Unparsable(aout.response.content)
               THEN aout.result = RawAnswer(aout.response.content)
               ELSE aout.result = json_loads(Extracted(aout.response.content)).value

Mutating(p) == op[p] \in StoreOps \ {"load_sessions"}

PlainReading(p) == op[p] = "load_sessions" /\ pc[p] = "yield"

\* from the read through truncate, write and fsync
InMutationSpan(p) == Mutating(p) /\ pc[p] \in {"yield", "block", "truncate", "dump"}

\* the file is neither the list before a running mutation nor the list
\* after it: it was created by the mutation's touch and not written yet,
\* or it was truncated and not written yet
FileIncomplete ==
    \/ file.kind = "empty" /\ touchedBy # 0
    \/ \E q \in Procs : pc[q] = "dump"

\* C20: a plain read holds a shared lock while it reads, a mutating
\* operation holds an exclusive lock from its read through truncate, write
\* and fsync, an exclusive holder never coexists with another holder, and
\* the file a plain read reads is never one that a running mutation has
\* created, truncated or partially written.
C20_LockDiscipline ==
    /\ \A p \in Procs : PlainReading(p) => lock[p] = "sh"
    /\ \A p \in Procs : InMutationSpan(p) => lock[p] = "ex"
    /\ \A p, q \in Procs : (p # q /\ lock[p] = "ex") => lock[q] = "none"
    /\ \A p \in Procs : PlainReading(p) => ~FileIncomplete

IsTurn(p) == op[p] = "orchestrate_agent"

\* the caller has left its block without an exception and has written the
\* list; it still holds the lock
Written(p) == pc[p] = "unlock" /\ raised[p] = "none"

\* the caller's block or its lock acquisition has failed; it is about to
\* release
Failed(p) == pc[p] = "unlock" /\ raised[p] # "none"

IsPrefixOf(s, u) == Len(s) <= Len(u) /\ SubSeq(u, 1, Len(s)) = s

\* after is before with, at its end, a user message with the prompt and
\* then an assistant message, or the assistant message alone when before
\* ends with that user message
TurnAppended(before, after, prompt) ==
    LET more == SubSeq(after, Len(before) + 1, Len(after))
        last == before[Len(before)]
        ends == before # <<>> /\ last.role = "user" /\ last.content = prompt
    IN /\ IsPrefixOf(before, after)
       /\ IF ends
          THEN Len(more) = 1 /\ more[1].role = "assistant"
          ELSE /\ Len(more) = 2
               /\ more[1].role = "user" /\ more[1].content = prompt
               /\ more[2].role = "assistant"

\* the sessions of the two lists are the same, in the same order, and only
\* the first session with the id of the request has changed, by the
\* messages of one turn
TurnWritten(before, after, r) ==
    /\ Len(after) = Len(before)
    /\ \A i \in 1..Len(before) :
          /\ after[i].id = before[i].id
          /\ IF before[i].id = r.session_id /\ \A j \in 1..(i - 1) : before[j].id # r.session_id
             THEN TurnAppended(before[i].messages, after[i].messages, r.content)
             ELSE after[i] = before[i]

\* in a stored session, the user message and the assistant message that one
\* turn has drawn consecutive ids for stand next to each other
PairsAdjacent(msgs) ==
    \A k, l \in 1..Len(msgs) :
        (msgs[k].id > 0 /\ msgs[k].role = "user" /\ msgs[l].role = "assistant"
            /\ msgs[l].id = msgs[k].id + 1) => l = k + 1

SessionNotFound(p) ==
    /\ op[p] = "add_message"
    /\ pc[p] = "done"
    /\ raised[p] = "HTTPException"

\* C29: add_message for a session id that is not in the store answers 404
\* (Session not found), not the 503 of a lock that cannot be acquired, and
\* the caller has not written the file.
C29_SessionNotFoundIs404 ==
    \A p \in Procs :
        SessionNotFound(p) =>
            /\ AddMessageStatus(outcome[p]) = 404
            /\ SessionIndex(DecodeOrEmpty(fileBefore[p]), req[p].session_id) = 0
            /\ newId[p] = 0

\* the steps before step k of the running plan that named the research agent
EarlierResearch(k) == {j \in 1..(k - 1) : orch.log[j].agent = "research"}

\* C22: a campaign step is handed, as its research input, the result of
\* the most recent earlier research step of the plan, and nothing when no
\* research step has run before it; a step of any other agent is handed no
\* research input.
C22_CampaignReceivesResearch ==
    \A k \in 1..Len(orch.log) :
        IF orch.log[k].agent = "campaign"
        THEN /\ orch.log[k].aux.given
             /\ orch.log[k].aux.value =
                    IF EarlierResearch(k) = {} THEN JNull
                    ELSE orch.log[SetMax(EarlierResearch(k))].ran.value
        ELSE ~orch.log[k].aux.given

\* the step results the context holds when execute is over
ContextRecords == Get(orch.context, "step_results").items

\* C23: when execute is over, step_results holds one record per step of
\* the plan, in the order of the plan, and the step number of each record
\* is the position of its step in the plan, whatever numbers the steps
\* declare and whatever the supplied context held.
C23_OneRecordPerStep ==
    ExecuteOver =>
        /\ Has(orch.context, "step_results")
        /\ Len(ContextRecords) = PlanLength
        /\ \A i \in 1..PlanLength :
              /\ Get(ContextRecords[i], "step") = JInt(i)
              /\ Get(ContextRecords[i], "agent") = Get(PlanSteps(orch.plan)[i], "agent")

\* the round added to the messages between the k-th and the next gateway
\* call: one assistant turn with the requests of the k-th response, one
\* tool turn per request in the same order, one user turn asking for JSON
RoundAdded(k) ==
    LET n == acall.turns[k].tool_calls
        before == aout.sent[k].messages
        after == aout.sent[k + 1].messages
        base == Len(before)
    IN /\ n >= 1
       /\ Len(after) = base + n + 2
       /\ SubSeq(after, 1, base) = before
       /\ after[base + 1].role = "assistant"
       /\ after[base + 1].tool_calls = [i \in 1..n |-> ToolCall(k, i)]
       /\ \A i \in 1..n :
             /\ after[base + 1 + i].role = "tool"
             /\ after[base + 1 + i].tool_call_id = ToolCall(k, i)
       /\ after[base + n + 2].role = "user"
       /\ after[base + n + 2].content = JsonOnlyReminder
       /\ \A j \in (base + 1)..(base + n + 2) :
             j # base + 1 => after[j].tool_calls = <<>>

\* the tools that ran are the requests of the responses answered so far, in
\* the order of the responses and of the requests in each response
ExecutedInOrder(rounds) ==
    /\ \A k \in 1..rounds : \A i \in 1..acall.turns[k].tool_calls :
          \E j \in 1..Len(aout.executed) : aout.executed[j] = ToolCall(k, i)
    /\ \A j \in 1..Len(aout.executed) :
          /\ aout.executed[j].call \in 1..rounds
          /\ aout.executed[j].index \in 1..acall.turns[aout.executed[j].call].tool_calls
    /\ \A j, h \in 1..Len(aout.executed) :
          j < h => \/ aout.executed[j].call < aout.executed[h].call
                   \/ /\ aout.executed[j].call = aout.executed[h].call
                      /\ aout.executed[j].index < aout.executed[h].index

\* C24: a tool-enabled agent whose gateway response carries n >= 1 tool-call
\* requests runs the n tools in order, adds to the messages one assistant
\* turn with the n requests, n tool-result turns in the same order and one
\* user turn asking for JSON only, and calls the gateway again with
\* tool_choice "none"; it does so for every response that carries tool calls
\* and parses the first response that carries none
C24_ToolCallRounds ==
    (acall.use_tools /\ aout.calls > 0) =>
        LET rounds == aout.calls - 1
        IN /\ Len(aout.sent) = aout.calls
           /\ \A k \in 1..rounds :
                 /\ RoundAdded(k)
                 /\ aout.sent[k + 1].tool_choice = "none"
           /\ ExecutedInOrder(rounds)
           /\ apc = "tools" => aout.response.tool_calls >= 1
           /\ apc = "parse" => aout.response.tool_calls = 0
           /\ (apc = "returned" /\ ~aout.gatewayRaised) =>
                 /\ aout.response = acall.turns[aout.calls]
                 /\ aout.response.tool_calls = 0
                 /\ LET ret == _parse_response(aout.response.content)
                    IN aout.result = IF ret.raises
                                     THEN _handle_error(ret.error_type, ret.message,
                                                        acall.agent_name)
                                     ELSE ret.value

\* two rounds, the first with two requests, and then a parsed answer
C24_Witness ==
    /\ acall.use_tools
    /\ apc = "returned"
    /\ ~aout.gatewayRaised
    /\ aout.calls = 3
    /\ acall.turns[1].tool_calls = 2
    /\ Len(aout.executed) = 3
    /\ Len(aout.messages) = 9
    /\ IsDict(aout.result)
    /\ ~Has(aout.result, "error")

\* the campaigns an evidence record lists, all of them
ListedCampaigns(holder) ==
    LET listed == GetOr(GetOr(holder, "evidence", EmptyDict), "historical_campaigns",
                        JList(<<>>))
    IN IF IsDict(holder) /\ IsList(listed)
       THEN SelectSeq(listed.items, LAMBDA c : IsDict(c) /\ Truthy(Get(c, "id")))
       ELSE <<>>

RECURSIVE ResearchListed(_)
\* the campaigns listed by the research step results, in the order of the steps
ResearchListed(steps) ==
    IF steps = <<>> THEN <<>>
    ELSE (IF IsResearchStep(Head(steps))
          THEN ListedCampaigns(GetOr(Head(steps), "result", EmptyDict)) ELSE <<>>)
         \o ResearchListed(Tail(steps))

RECURSIVE FirstById(_, _)
\* each id once, at its first place
FirstById(seen, campaigns) ==
    IF campaigns = <<>> THEN seen
    ELSE FirstById(IF HasSourceId(seen, Get(Head(campaigns), "id")) THEN seen
                   ELSE Append(seen, D2("id", Get(Head(campaigns), "id"),
                                        "name", GetOr(Head(campaigns), "name",
                                                      Get(Head(campaigns), "id")))),
                   Tail(campaigns))

\* the campaigns discovered across the research step results and the final
\* result, each id once, in order of first discovery
DiscoveredCampaigns ==
    FirstById(<<>>, ResearchListed(StepResultsOf(fcall.execution_result))
                    \o ListedCampaigns(fcall.final_result))

\* the campaigns the rationale of the response names
NamedCampaigns == SourceCampaigns(fcall.execution_result, fcall.final_result)
NamedSegments == SourceSegments(fcall.execution_result)

\* C25: the 'Based on' block names at most 5 campaigns and at most 5
\* segments in total, each id once, in order of first discovery across the
\* research step results and the final result: the first 5 of the campaigns
\* discovered
C25_AtMostFiveSources ==
    (fpc = "returned" /\ Has(fout.response, "rationale")) =>
        /\ Len(NamedCampaigns) <= SourceLimit
        /\ Len(NamedSegments) <= SourceLimit
        /\ NamedCampaigns = FirstFive(DiscoveredCampaigns)
        /\ \A i, j \in 1..Len(NamedCampaigns) :
              Get(NamedCampaigns[i], "id") = Get(NamedCampaigns[j], "id") => i = j
        /\ \E said \in {"Analysis completed.", "Spring buyers respond to discounts",
                          "Discount-led campaign"} :
              Get(fout.response, "rationale").s
                = said \o BasedOnBlock(FirstFive(DiscoveredCampaigns),
                                       FirstFive(NamedSegments))

\* the same seven campaigns listed by a research step and by the final
\* result: the first five are named
SameListTwiceNamesFive ==
    (/\ fpc = "returned"
     /\ fcall.final_result = SevenCampaigns
     /\ StepResultsOf(fcall.execution_result) = <<ResearchRecord(SevenCampaigns)>>)
    => NamedCampaigns = [i \in 1..5 |-> HistoricalCampaign(i)]

RECURSIVE NumberLists(_)
\* the lists of two or more numbers under a value, at any depth
NumberLists(v) ==
    IF ~(IsDict(v) \/ IsList(v)) THEN {}
    ELSE (IF IsList(v) /\ Len(v.items) > 1 /\ AllNumbers(v.items) THEN {v.items} ELSE {})
         \cup UNION {NumberLists(v.items[i]) : i \in 1..Len(v.items)}

RECURSIVE PointLists(_)
\* the lists of two or more {x, y} points under a value, at any depth
PointLists(v) ==
    IF ~(IsDict(v) \/ IsList(v)) THEN {}
    ELSE (IF IsList(v) /\ Len(v.items) > 1 /\ AllPoints(v.items) THEN {v.items} ELSE {})
         \cup UNION {PointLists(v.items[i]) : i \in 1..Len(v.items)}

RECURSIVE ExplicitCharts(_)
\* the chart and chartData records under a value, at any depth
ExplicitCharts(v) ==
    IF ~(IsDict(v) \/ IsList(v)) THEN {}
    ELSE (IF IsDict(v)
          THEN {Get(v, k) : k \in {j \in {"chart", "chartData"} : IsDict(Get(v, j))}}
          ELSE {})
         \cup UNION {ExplicitCharts(v.items[i]) : i \in 1..Len(v.items)}

\* the data of the chart components of the response
ChartsEmitted ==
    {Get(fout.ui_components[i], "data") :
        i \in {j \in 1..Len(fout.ui_components) :
                  Get(fout.ui_components[j], "type") = JStr("chart")}}

\* a line chart over the given labels and values
IsLineChartOf(chart, labels, values) ==
    /\ Get(chart, "type") = JStr("line")
    /\ Get(Get(chart, "data"), "labels") = JList(labels)
    /\ Get(Get(Get(chart, "data"), "datasets").items[1], "data") = JList(values)

\* C26: when a list of two or more numbers occurs anywhere under the final
\* result (under a dict value or inside a list element, at any depth) and
\* there is no explicit chart payload, the response has a line chart whose
\* datasets[0].data is that list with labels 'Point 1' .. 'Point n'; for a
\* list of {x, y} points, the labels are the x and the data the y values
C26_ChartFromAnyDepth ==
    (/\ fpc = "returned"
     /\ ExplicitCharts(fcall.final_result) = {}
     /\ NumberLists(fcall.final_result) \cup PointLists(fcall.final_result) # {})
    => \E chart \in ChartsEmitted :
          \/ \E numbers \in NumberLists(fcall.final_result) :
                IsLineChartOf(chart, PointLabels(Len(numbers)), numbers)
          \/ \E points \in PointLists(fcall.final_result) :
                IsLineChartOf(chart,
                              [i \in 1..Len(points) |-> JStr(PyStr(Get(points[i], "x")))],
                              [i \in 1..Len(points) |-> PyFloat(Get(points[i], "y"))])

\* C27: when the final result holds an explicit chart payload (a chart or
\* chartData record) and data from which a chart could be inferred, the
\* response has one chart component and it carries the explicit payload,
\* wherever the two are in the result
C27_ExplicitChartWins ==
    (/\ fpc = "returned"
     /\ ExplicitCharts(fcall.final_result) # {}
     /\ NumberLists(fcall.final_result) \cup PointLists(fcall.final_result) # {})
    => /\ Cardinality({j \in 1..Len(fout.ui_components) :
                          Get(fout.ui_components[j], "type") = JStr("chart")}) = 1
       /\ ChartsEmitted \subseteq ExplicitCharts(fcall.final_result)

\* the items of a list value, none for any other value
ItemsOf(v) == IF IsList(v) THEN v.items ELSE <<>>

\* the item lists the layers of recommendation detection yield for a dict,
\* in the order of the layers: the explicit payload, recommended_campaigns,
\* recommended_segments, analysis.audience_recommendations,
\* evidence.historical_campaigns, a list of records below
LayerItems(data) ==
    << ItemsOf(Get(Get(data, "recommendations"), "items")),
       ItemsOf(Get(data, "recommended_campaigns")),
       ItemsOf(Get(data, "recommended_segments")),
       ItemsOf(Get(AudienceRecommendations(Get(Get(data, "analysis"),
                                               "audience_recommendations")), "items")),
       ItemsOf(Get(HistoricalCampaignRecommendations(
                       ItemsOf(Get(Get(data, "evidence"), "historical_campaigns")), "root"),
                   "items")),
       ItemsOf(Get(FirstRecommendationsIn(data.keys, data.items, "root"), "items")) >>

\* the first layer with items
FirstLayer(layers) == CHOOSE i \in 1..Len(layers) : layers[i] # <<>> /\ \A j \in 1..(i - 1) : layers[j] = <<>>

\* the data of the recommendations components of the response
RecommendationsEmitted ==
    {Get(fout.ui_components[i], "data") :
        i \in {j \in 1..Len(fout.ui_components) :
                  Get(fout.ui_components[j], "type") = JStr("recommendations")}}

\* C28: recommendation detection tries the explicit payload, then
\* recommended_campaigns / recommended_segments, then
\* analysis.audience_recommendations, then evidence.historical_campaigns,
\* then a list of records, and returns the first layer with items: a layer
\* that is present but empty does not win over a later layer with items
C28_FirstNonEmptyLayerWins ==
    (/\ fpc = "returned"
     /\ fcall.intent # "campaign_generation"
     /\ IsDict(fcall.final_result)
     /\ \E i \in 1..6 : LayerItems(fcall.final_result)[i] # <<>>)
    => \E found \in RecommendationsEmitted :
          ItemsOf(Get(found, "items"))
            = LayerItems(fcall.final_result)[FirstLayer(LayerItems(fcall.final_result))]

\* the component types that may occur once
ComponentKinds ==
    {{"campaign_form"}, {"segment", "segment_form"}, {"research_analysis"},
     {"recommendations"}, {"chart"}}

\* the number of components of the list whose type is one of types
CountOf(components, types) ==
    Cardinality({i \in 1..Len(components) :
                    Get(components[i], "type").t = "str"
                    /\ Get(components[i], "type").s \in types})

\* at most one component of each kind; for campaign_generation one
\* campaign_form whose data has neither uiComponents nor primaryComponent
OnePerKind(intent, components) ==
    /\ \A types \in ComponentKinds : CountOf(components, types) <= 1
    /\ intent = "campaign_generation" =>
          /\ CountOf(components, {"campaign_form"}) = 1
          /\ \A i \in 1..Len(components) :
                Get(components[i], "type") = JStr("campaign_form") =>
                    /\ ~Has(Get(components[i], "data"), "uiComponents")
                    /\ ~Has(Get(components[i], "data"), "primaryComponent")

\* uiComponents of the envelope
EnvelopeComponents == ItemsOf(Get(Get(fout.response, "campaignConfig"), "uiComponents"))

\* C30: in every envelope of _format_response, uiComponents has at most one
\* component of each type (campaign_form, segment or segment_form,
\* research_analysis, recommendations, chart); the recommendations built
\* from search results are not duplicated by detected recommendations, and
\* campaign_generation has exactly one campaign_form whose data carries
\* neither uiComponents nor primaryComponent
C30_OneComponentPerType ==
    fpc = "returned" => OnePerKind(fcall.intent, EnvelopeComponents)

\* the components the formatter assembles itself are one per type
AssembledOnePerKind ==
    fpc = "returned" => OnePerKind(fcall.intent, fout.ui_components)

====
